---------------------------- MODULE Spec2Model ----------------------------
(***************************************************************************)
(* Seat lifecycle of the reservation service.                              *)
(*                                                                         *)
(* Two implementations of SeatServiceInterface are modelled:               *)
(*   - SeatService          (Redis only; the instance the routes call)     *)
(*   - EnhancedSeatService  (PostgreSQL + Redis + queue + timers)          *)
(*                                                                         *)
(* Every await on a shared store is one action.  An action applies the     *)
(* awaited command to the store and then runs the caller's code up to the  *)
(* next await, so a timestamp taken with new Date() after an await is      *)
(* taken in the action of that await.                                      *)
(*                                                                         *)
(* Time.  Instants are kept relative to the clock: a hold's expiresIn is   *)
(* its expiresAt minus the current time and a key's ttl is the time it has *)
(* left, both in seconds; Tick lets TickSec seconds pass.  heldAt and     *)
(* reservedAt are only stored and returned by the code, never compared:    *)
(* the model keeps whether one is set (SetT) or null (NullT).              *)
(***************************************************************************)
EXTENDS Integers, FiniteSets, Sequences, TLC

(* ------------------------------ bounds ------------------------------- *)
NumSeats == 2
NumProcs == 2
MaxParamLen == 2
TickSec  == 10
Horizon  == 30

(* MAX_HOLDS_PER_USER of the environment the model runs in (default 5).   *)
MaxHoldsPerUser == 1

Seats     == 1..NumSeats
Procs     == 1..NumProcs
Users     == {"A", "B"}
Durations == {10, 20}

Null  == "null"
NullT == -1
SetT  == 1
NoErr == "ok"

(* ----------------------------- messages ------------------------------ *)
ErrNotAvailable == "Seat is not available"
ErrQuota        == "User can hold maximum N seats"
ErrNotHeld      == "Seat is not held"
ErrOtherUser    == "Seat is held by another user"
ErrExpired      == "Seat hold has expired"
ErrBusy         == "Seat is currently being processed by another user"
ErrDuplicate    == "duplicate key value violates unique constraint"
ErrPublish      == "xAdd failed"
ErrStore        == "store unavailable"
ErrSeatCount    == "Total seats must be between 10 and 1000"
ErrExists       == "Event already exists"
ErrEventNotFound == "Event not found"
ErrSeatNotFound  == "Seat not found"
ErrInvalidSeat   == "Invalid seat number"
ErrEventIdFormat == "Invalid event ID format"
ErrInternal      == "Internal server error"

(* ------------------------ program constants -------------------------- *)
LockTtl       == 10
SeatCacheTtl  == 300
AvailCacheTtl == 30
MinTotalSeats == 10
MaxTotalSeats == 1000
EventCacheTtl == 3600

(* ------------------------------ records ------------------------------ *)
AvailableSeat == [status |-> "available", userId |-> Null, heldAt |-> NullT, reservedAt |-> NullT]
NoHold        == [userId |-> Null, heldAt |-> NullT, expiresIn |-> 0, ttl |-> 0]
NoReservation == [userId |-> Null, reservedAt |-> NullT]
NoLock        == [by |-> 0, ttl |-> 0]
NoSeatCache   == [status |-> "none", userId |-> Null, heldAt |-> NullT, reservedAt |-> NullT, ttl |-> 0]
NoAvailCache  == [list |-> <<>>, ttl |-> 0]
NoEvent       == [status |-> "none", totalSeats |-> 0, ttl |-> 0]
NoRequest     == [stage |-> "none", route |-> "none", eventIdOk |-> TRUE, seatNumber |-> <<>>,
                  called |-> FALSE, name |-> "none", thrown |-> "none",
                  status |-> 0, error |-> "none"]

VARIABLES
    svc,          \* which implementation is deployed: "redis" or "enhanced"
    seq,          \* TRUE: the clients call one operation at a time
    scope,        \* the calls the clients make and the failures that occur: [ops, seats, durs, faults, totals]
    seats,        \* durable seat records (event_seats hash / seats table)
    hold,         \* seat_hold:<e>:<s> / hold:<e>:<s> keys, with the ttl they have left
    userHolds,    \* user_holds:<u>:<e> sets
    reservation,  \* seat_reserved:<e>:<s> keys / reservations table
    lock,         \* lock:seat:<e>:<s> keys (the gate), with the ttl they have left
    rowLock,      \* PostgreSQL row lock of every seat row: the caller holding it, or 0
    seatCache,    \* seat:<e>:<s> cache keys
    availCache,   \* available_seats:<e> cache key
    timers,       \* pending setTimeout callbacks that emit holdExpired
    holdsWon,     \* holdSeat calls that took the seat since it was last released
    pc,           \* position of every caller
    loc,          \* arguments and local variables of every caller
    snap,         \* state at the start of the call in flight (sequential use only)
    event,        \* the event: its event:<e> key / events row, and the event:<e> cache key
    http          \* the HTTP request a route handler is serving, and its response

vars == <<svc, seq, scope, seats, hold, userHolds, reservation,
          lock, rowLock, seatCache, availCache, timers, holdsWon, pc, loc, snap,
          event, http>>

store  == <<seats, hold, userHolds, reservation>>
estore == <<lock, rowLock, seatCache, availCache, timers>>

Idle0 == [op |-> "none", seat |-> 0, user |-> Null, dur |-> 0,
          row |-> AvailableSeat, rrow |-> AvailableSeat, h |-> NoHold,
          t |-> NullT, err |-> NoErr, cont |-> "top", src |-> "client",
          upd |-> AvailableSeat, dirty |-> FALSE, ins |-> FALSE, out |-> <<>>,
          all |-> [s \in Seats |-> AvailableSeat], todo |-> {}, acc |-> <<>>,
          total |-> 0]

NoSnap == [taken |-> FALSE,
           seats |-> [s \in Seats |-> AvailableSeat],
           hold |-> [s \in Seats |-> NoHold],
           userHolds |-> [u \in Users |-> {}],
           reservation |-> [s \in Seats |-> NoReservation],
           seatCache |-> [s \in Seats |-> NoSeatCache],
           availCache |-> NoAvailCache,
           timers |-> {},
           event |-> [row |-> NoEvent, cache |-> NoEvent]]

Snapshot == [taken |-> TRUE, seats |-> seats, hold |-> hold,
             userHolds |-> userHolds, reservation |-> reservation,
             seatCache |-> seatCache, availCache |-> availCache, timers |-> timers,
             event |-> event]

(* the event as createEvent stores it *)
ActiveEvent(n) == [status |-> "active", totalSeats |-> n, ttl |-> 0]

(* --------------------------- initial state --------------------------- *)
(* the stores of a deployment that serves no request *)
InitRest ==
    /\ hold = [s \in Seats |-> NoHold]
    /\ userHolds = [u \in Users |-> {}]
    /\ reservation = [s \in Seats |-> NoReservation]
    /\ lock = [s \in Seats |-> NoLock]
    /\ rowLock = [s \in Seats |-> 0]
    /\ seatCache = [s \in Seats |-> NoSeatCache]
    /\ availCache = NoAvailCache
    /\ timers = {}
    /\ holdsWon = [s \in Seats |-> 0]
    /\ pc = [p \in Procs |-> "idle"]
    /\ loc = [p \in Procs |-> Idle0]
    /\ snap = NoSnap
    /\ http = NoRequest

(* the event exists, with the seats 1..NumSeats, all available *)
InitStore ==
    /\ InitRest
    /\ event = [row |-> ActiveEvent(NumSeats), cache |-> NoEvent]
    /\ seats = [s \in Seats |-> AvailableSeat]

(* ----------------------------- helpers ------------------------------- *)
Goto(p, label, l) ==
    /\ pc' = [pc EXCEPT ![p] = label]
    /\ loc' = [loc EXCEPT ![p] = l]

(* the method returns: its frame is dropped, the arguments, the error and the *)
(* returned value (hold, seat or list) stay for the caller                  *)
Finish(p, l) ==
    Goto(p, "done", [Idle0 EXCEPT !.op = l.op, !.seat = l.seat, !.user = l.user,
                         !.dur = l.dur, !.err = l.err, !.src = l.src, !.out = l.out,
                         !.total = l.total,
                         !.h = IF l.err = NoErr /\ l.op \in {"hold", "refresh"} THEN l.h ELSE NoHold,
                         !.t = IF l.err = NoErr /\ l.op = "reserve" THEN l.t ELSE NullT,
                         !.row = IF l.err = NoErr /\ l.op = "status" THEN l.row ELSE AvailableSeat,
                         !.acc = IF l.err = NoErr /\ l.op = "avail" THEN l.acc ELSE <<>>])

(* throw new Error(msg) out of a SeatService method *)
SThrow(p, msg) == Finish(p, [loc[p] EXCEPT !.err = msg])

(* a call can start on an idle client; in sequential use there is a single *)
(* client, whose calls do not overlap                                        *)
CanStart(p) ==
    /\ pc[p] = "idle"
    /\ seq => (p = 1 /\ \A q \in Procs : pc[q] = "idle")

getUserHoldCount(u) == Cardinality(userHolds[u])

Min(S) == CHOOSE x \in S : \A y \in S : x <= y

(* JSON.parse of a stored hold: the record without the key's TTL *)
HoldData(h) == [h EXCEPT !.ttl = 0]

(* Array.prototype.sort((a, b) => a.seatNumber - b.seatNumber) *)
RECURSIVE SortSeats(_)
SortSeats(q) ==
    IF Len(q) <= 1 THEN q
    ELSE LET m    == Min({q[i] : i \in 1..Len(q)})
             i0   == Min({i \in 1..Len(q) : q[i] = m})
             rest == [i \in 1..(Len(q) - 1) |-> IF i < i0 THEN q[i] ELSE q[i + 1]]
         IN  <<m>> \o SortSeats(rest)

(* ======================= SeatService (Redis) ========================= *)

(* a route handler calls a method of seatService *)
SCall(p) ==
    /\ svc = "redis"
    /\ CanStart(p)
    /\ event.row # NoEvent
    /\ \E s \in scope.seats \cap DOMAIN seats, u \in Users, d \in scope.durs, op \in scope.ops :
          LET l == [Idle0 EXCEPT !.op = op,
                        !.seat = IF op = "avail" THEN 0 ELSE s,
                        !.user = IF op \in {"hold", "reserve", "refresh"} THEN u ELSE Null,
                        !.dur  = IF op \in {"hold", "refresh"} THEN d ELSE 0]
          IN  Goto(p, CASE op = "hold"    -> "sHoldRead"
                        [] op = "reserve" -> "sResGet"
                        [] op = "release" -> "sRelRead"
                        [] op = "refresh" -> "sRefGet"
                        [] op = "status"  -> "sStatRead"
                        [] op = "avail"   -> "sAvailAll", l)
    /\ snap' = IF seq THEN Snapshot ELSE NoSnap
    /\ UNCHANGED <<svc, seq, scope, event, http, estore, holdsWon, store>>

(* holdSeat: getEvent, hGet of the seat, availability check *)
SHoldRead(p) ==
    /\ pc[p] = "sHoldRead"
    /\ LET row == seats[loc[p].seat]
       IN  IF row.status # "available"
           THEN SThrow(p, ErrNotAvailable)
           ELSE Goto(p, "sHoldCount", [loc[p] EXCEPT !.row = row])
    /\ UNCHANGED <<svc, seq, scope, event, http, estore, holdsWon, store, snap>>

(* holdSeat refusing only above the quota (> for >=) *)
SHoldCountAbove(p) ==
    /\ pc[p] = "sHoldCount"
    /\ IF getUserHoldCount(loc[p].user) > MaxHoldsPerUser
       THEN SThrow(p, ErrQuota)
       ELSE Goto(p, "sHoldWrite", [loc[p] EXCEPT !.t = SetT])
    /\ UNCHANGED <<svc, seq, scope, event, http, estore, holdsWon, store, snap>>

(* holdSeat: sCard of the user's holds, quota check, heldAt = new Date() *)
SHoldCount(p) ==
    /\ pc[p] = "sHoldCount"
    /\ IF getUserHoldCount(loc[p].user) >= MaxHoldsPerUser
       THEN SThrow(p, ErrQuota)
       ELSE Goto(p, "sHoldWrite", [loc[p] EXCEPT !.t = SetT])
    /\ UNCHANGED <<svc, seq, scope, event, http, estore, holdsWon, store, snap>>

(* holdSeat: hSet of {...seat, status: held, userId, heldAt}; then expiresAt *)
SHoldWrite(p) ==
    /\ pc[p] = "sHoldWrite"
    /\ LET l == loc[p]
       IN  /\ seats' = [seats EXCEPT ![l.seat] =
                  [l.row EXCEPT !.status = "held", !.userId = l.user, !.heldAt = l.t]]
           /\ Goto(p, "sHoldSetEx", [l EXCEPT !.row = AvailableSeat, !.h =
                  [userId |-> l.user, heldAt |-> l.t, expiresIn |-> l.dur, ttl |-> 0]])
           /\ holdsWon' = [holdsWon EXCEPT ![l.seat] = @ + 1]
    /\ UNCHANGED <<svc, seq, scope, event, http, estore, hold, userHolds, reservation, snap>>

(* holdSeat: setEx(holdKey, holdDuration, holdData) *)
SHoldSetEx(p) ==
    /\ pc[p] = "sHoldSetEx"
    /\ LET l == loc[p]
       IN  \E f \in {"none"} \cup (scope.faults \cap {"setEx"}) :
              IF f = "setEx"
              THEN SThrow(p, ErrStore) /\ UNCHANGED hold
              ELSE /\ hold' = [hold EXCEPT ![l.seat] = [l.h EXCEPT !.ttl = l.dur]]
                   /\ Goto(p, "sHoldSAdd", l)
    /\ UNCHANGED <<svc, seq, scope, event, http, estore, holdsWon, seats, userHolds, reservation, snap>>

(* holdSeat: sAdd to the user's holds, return holdData *)
SHoldSAdd(p) ==
    /\ pc[p] = "sHoldSAdd"
    /\ LET l == loc[p]
       IN  /\ userHolds' = [userHolds EXCEPT ![l.user] = @ \cup {l.seat}]
           /\ Finish(p, l)
    /\ UNCHANGED <<svc, seq, scope, event, http, estore, holdsWon, seats, hold, reservation, snap>>

(* getAvailableSeats: the for loop over Object.entries(allSeats), run up to *)
(* its next await (the get of a held seat's hold key) or to the return    *)
SAvailLoop(p, l) ==
    LET RECURSIVE Walk(_, _)
        Walk(td, ac) ==
            IF td = {} THEN [todo |-> {}, acc |-> ac, seat |-> 0]
            ELSE LET s == Min(td)
                 IN  IF l.all[s].status = "available" THEN Walk(td \ {s}, Append(ac, s))
                     ELSE IF l.all[s].status = "held" THEN [todo |-> td \ {s}, acc |-> ac, seat |-> s]
                     ELSE Walk(td \ {s}, ac)
        w == Walk(l.todo, l.acc)
    IN  IF w.seat = 0
        THEN Finish(p, [l EXCEPT !.seat = 0, !.acc = SortSeats(w.acc)])
        ELSE Goto(p, "sAvailHold", [l EXCEPT !.todo = w.todo, !.seat = w.seat, !.acc = w.acc])

(* releaseSeat has finished (from the route, or nested in another method): *)
(* control goes back to where it was called from                           *)
SRelDone(p, l) ==
    CASE l.cont = "top"     -> Finish(p, l)
      [] l.cont = "expired" -> Finish(p, [l EXCEPT !.err = ErrExpired])
      [] l.cont = "status"  -> Finish(p, [l EXCEPT !.row =
                                   [l.row EXCEPT !.status = "available", !.userId = Null, !.heldAt = NullT]])
      [] l.cont = "avail"   -> SAvailLoop(p, [l EXCEPT !.acc = Append(l.acc, l.seat)])

(* releaseSeat releasing whatever is not available *)
SRelReadAny(p) ==
    /\ pc[p] = "sRelRead"
    /\ LET row == seats[loc[p].seat]
           l   == [loc[p] EXCEPT !.rrow = row]
       IN  IF row.status # "available"
           THEN Goto(p, "sRelWrite", l)
           ELSE SRelDone(p, l)
    /\ UNCHANGED <<svc, seq, scope, event, http, estore, holdsWon, store, snap>>

(* releaseSeat: hGet of the seat; only a held seat is released *)
SRelRead(p) ==
    /\ pc[p] = "sRelRead"
    /\ LET row == seats[loc[p].seat]
           l   == [loc[p] EXCEPT !.rrow = row]
       IN  IF row.status = "held"
           THEN Goto(p, "sRelWrite", l)
           ELSE SRelDone(p, l)
    /\ UNCHANGED <<svc, seq, scope, event, http, estore, holdsWon, store, snap>>

(* releaseSeat: hSet of {...seat, status: available, userId: null, heldAt: null} *)
SRelWrite(p) ==
    /\ pc[p] = "sRelWrite"
    /\ LET l == loc[p]
       IN  /\ seats' = [seats EXCEPT ![l.seat] =
                  [l.rrow EXCEPT !.status = "available", !.userId = Null, !.heldAt = NullT]]
           /\ Goto(p, "sRelDel", [l EXCEPT !.rrow = [AvailableSeat EXCEPT !.userId = l.rrow.userId]])
           /\ holdsWon' = [holdsWon EXCEPT ![l.seat] = 0]
    /\ UNCHANGED <<svc, seq, scope, event, http, estore, hold, userHolds, reservation, snap>>

(* releaseSeat: del of the hold key *)
SRelDel(p) ==
    /\ pc[p] = "sRelDel"
    /\ LET l == loc[p]
       IN  /\ hold' = [hold EXCEPT ![l.seat] = NoHold]
           /\ IF l.rrow.userId # Null
              THEN Goto(p, "sRelSRem", l)
              ELSE SRelDone(p, l)
    /\ UNCHANGED <<svc, seq, scope, event, http, estore, holdsWon, seats, userHolds, reservation, snap>>

(* releaseSeat: sRem from the holds of the user read from the seat *)
SRelSRem(p) ==
    /\ pc[p] = "sRelSRem"
    /\ LET l == loc[p]
       IN  /\ userHolds' = [userHolds EXCEPT ![l.rrow.userId] = @ \ {l.seat}]
           /\ SRelDone(p, l)
    /\ UNCHANGED <<svc, seq, scope, event, http, estore, holdsWon, seats, hold, reservation, snap>>

(* the ownership checks without the comparison of the hold's userId *)
HoldCheckAnyUser(h, u) ==
    IF h = NoHold THEN ErrNotHeld
    ELSE IF h.expiresIn < 0 THEN ErrExpired
    ELSE NoErr

(* the hold-ownership check shared by reserveSeat and refreshSeatHold: *)
(* the error it raises, or NoErr                                         *)
HoldCheck(h, u) ==
    IF h = NoHold THEN ErrNotHeld
    ELSE IF h.userId # u THEN ErrOtherUser
    ELSE IF h.expiresIn < 0 THEN ErrExpired
    ELSE NoErr

(* reserveSeat: get of the hold key and the ownership checks *)
SResGet(p) ==
    /\ pc[p] = "sResGet"
    /\ LET l == [loc[p] EXCEPT !.h = HoldData(hold[loc[p].seat])]
           e == HoldCheck(l.h, l.user)
       IN  IF e = ErrExpired THEN Goto(p, "sRelRead", [l EXCEPT !.cont = "expired", !.h = NoHold])
           ELSE IF e # NoErr THEN SThrow(p, e)
           ELSE Goto(p, "sResRead", [l EXCEPT !.h = NoHold])
    /\ UNCHANGED <<svc, seq, scope, event, http, estore, holdsWon, store, snap>>

(* reserveSeat: hGet of the seat; reservedAt = new Date() *)
SResRead(p) ==
    /\ pc[p] = "sResRead"
    /\ Goto(p, "sResWrite", [loc[p] EXCEPT !.row = seats[loc[p].seat], !.t = SetT])
    /\ UNCHANGED <<svc, seq, scope, event, http, estore, holdsWon, store, snap>>

(* reserveSeat: hSet of {...seat, status: reserved, reservedAt} *)
SResWrite(p) ==
    /\ pc[p] = "sResWrite"
    /\ LET l == loc[p]
       IN  /\ seats' = [seats EXCEPT ![l.seat] =
                  [l.row EXCEPT !.status = "reserved", !.reservedAt = l.t]]
           /\ Goto(p, "sResDel", [l EXCEPT !.row = AvailableSeat])
    /\ UNCHANGED <<svc, seq, scope, event, http, estore, holdsWon, hold, userHolds, reservation, snap>>

(* reserveSeat: del of the hold key *)
SResDel(p) ==
    /\ pc[p] = "sResDel"
    /\ hold' = [hold EXCEPT ![loc[p].seat] = NoHold]
    /\ Goto(p, "sResSet", loc[p])
    /\ UNCHANGED <<svc, seq, scope, event, http, estore, holdsWon, seats, userHolds, reservation, snap>>

(* reserveSeat: set of the reservation record *)
SResSet(p) ==
    /\ pc[p] = "sResSet"
    /\ LET l == loc[p]
       IN  /\ reservation' = [reservation EXCEPT ![l.seat] =
                  [userId |-> l.user, reservedAt |-> l.t]]
           /\ Goto(p, "sResSRem", l)
    /\ UNCHANGED <<svc, seq, scope, event, http, estore, holdsWon, seats, hold, userHolds, snap>>

(* reserveSeat without the sRem from the caller's holds *)
SResSRemSkipped(p) ==
    /\ pc[p] = "sResSRem"
    /\ Finish(p, loc[p])
    /\ UNCHANGED <<svc, seq, scope, event, http, estore, holdsWon, store, snap>>

(* reserveSeat: sRem from the caller's holds, return the reservation *)
SResSRem(p) ==
    /\ pc[p] = "sResSRem"
    /\ LET l == loc[p]
       IN  /\ userHolds' = [userHolds EXCEPT ![l.user] = @ \ {l.seat}]
           /\ Finish(p, l)
    /\ UNCHANGED <<svc, seq, scope, event, http, estore, holdsWon, seats, hold, reservation, snap>>

(* refreshSeatHold storing the hold with the expiresAt it had *)
SRefGetKeepExpiry(p) ==
    /\ pc[p] = "sRefGet"
    /\ LET l == [loc[p] EXCEPT !.h = HoldData(hold[loc[p].seat])]
           e == HoldCheck(l.h, l.user)
       IN  IF e = ErrExpired THEN Goto(p, "sRelRead", [l EXCEPT !.cont = "expired", !.h = NoHold])
           ELSE IF e # NoErr THEN SThrow(p, e)
           ELSE Goto(p, "sRefSetEx", l)
    /\ UNCHANGED <<svc, seq, scope, event, http, estore, holdsWon, store, snap>>

(* refreshSeatHold: get of the hold key, ownership checks, newExpiresAt *)
SRefGet(p) ==
    /\ pc[p] = "sRefGet"
    /\ LET l == [loc[p] EXCEPT !.h = HoldData(hold[loc[p].seat])]
           e == HoldCheck(l.h, l.user)
       IN  IF e = ErrExpired THEN Goto(p, "sRelRead", [l EXCEPT !.cont = "expired", !.h = NoHold])
           ELSE IF e # NoErr THEN SThrow(p, e)
           ELSE Goto(p, "sRefSetEx", [l EXCEPT !.h = [l.h EXCEPT !.expiresIn = l.dur]])
    /\ UNCHANGED <<svc, seq, scope, event, http, estore, holdsWon, store, snap>>

(* refreshSeatHold: setEx(holdKey, holdDuration, {...hold, expiresAt}) *)
SRefSetEx(p) ==
    /\ pc[p] = "sRefSetEx"
    /\ LET l == loc[p]
       IN  /\ hold' = [hold EXCEPT ![l.seat] = [l.h EXCEPT !.ttl = l.dur]]
           /\ Finish(p, l)
    /\ UNCHANGED <<svc, seq, scope, event, http, estore, holdsWon, seats, userHolds, reservation, snap>>

(* getSeatStatus: hGet of the seat *)
SStatRead(p) ==
    /\ pc[p] = "sStatRead"
    /\ LET l == [loc[p] EXCEPT !.row = seats[loc[p].seat]]
       IN  IF l.row.status = "held"
           THEN Goto(p, "sStatHold", l)
           ELSE Finish(p, l)
    /\ UNCHANGED <<svc, seq, scope, event, http, estore, holdsWon, store, snap>>

(* getSeatStatus returning the stored seat without looking at the hold key *)
SStatHoldUnchecked(p) ==
    /\ pc[p] = "sStatHold"
    /\ Finish(p, loc[p])
    /\ UNCHANGED <<svc, seq, scope, event, http, estore, holdsWon, store, snap>>

(* getSeatStatus: get of the hold key of a held seat; none left: release *)
SStatHold(p) ==
    /\ pc[p] = "sStatHold"
    /\ IF hold[loc[p].seat] = NoHold
       THEN Goto(p, "sRelRead", [loc[p] EXCEPT !.cont = "status"])
       ELSE Finish(p, loc[p])
    /\ UNCHANGED <<svc, seq, scope, event, http, estore, holdsWon, store, snap>>


(* getAvailableSeats: getEvent and hGetAll of the event's seats *)
SAvailAll(p) ==
    /\ pc[p] = "sAvailAll"
    /\ SAvailLoop(p, [loc[p] EXCEPT !.all = seats, !.todo = DOMAIN seats])
    /\ UNCHANGED <<svc, seq, scope, event, http, estore, holdsWon, store, snap>>

(* getAvailableSeats passing over every held seat without the get of its hold key *)
SAvailHoldSkipped(p) ==
    /\ pc[p] = "sAvailHold"
    /\ SAvailLoop(p, loc[p])
    /\ UNCHANGED <<svc, seq, scope, event, http, estore, holdsWon, store, snap>>

(* getAvailableSeats: get of the hold key of a held seat; none left: release *)
SAvailHold(p) ==
    /\ pc[p] = "sAvailHold"
    /\ IF hold[loc[p].seat] = NoHold
       THEN Goto(p, "sRelRead", [loc[p] EXCEPT !.cont = "avail"])
       ELSE SAvailLoop(p, loc[p])
    /\ UNCHANGED <<svc, seq, scope, event, http, estore, holdsWon, store, snap>>

(* a client asks for the event to be created (POST /api/events); totalSeats *)
(* is the client's                                                         *)
CreateCall(p) ==
    /\ CanStart(p)
    /\ \E n \in scope.totals :
          Goto(p, IF svc = "redis" THEN "sCreateGet" ELSE "eCreateSelect",
               [Idle0 EXCEPT !.op = "create", !.total = n])
    /\ snap' = IF seq THEN Snapshot ELSE NoSnap
    /\ UNCHANGED <<svc, seq, scope, event, http, estore, holdsWon, store>>

(* createEvent refusing the limits themselves (<= and >= for < and >) *)
SCreateGetExclusive(p) ==
    /\ pc[p] = "sCreateGet"
    /\ IF loc[p].total <= MinTotalSeats \/ loc[p].total >= MaxTotalSeats
       THEN SThrow(p, ErrSeatCount)
       ELSE IF event.row # NoEvent
       THEN SThrow(p, ErrExists)
       ELSE Goto(p, "sCreateSet", loc[p])
    /\ UNCHANGED <<svc, seq, scope, event, http, estore, holdsWon, store, snap>>

(* createEvent: the seat count check, and the get of the event key *)
SCreateGet(p) ==
    /\ pc[p] = "sCreateGet"
    /\ IF loc[p].total < MinTotalSeats \/ loc[p].total > MaxTotalSeats
       THEN SThrow(p, ErrSeatCount)
       ELSE IF event.row # NoEvent
       THEN SThrow(p, ErrExists)
       ELSE Goto(p, "sCreateSet", loc[p])
    /\ UNCHANGED <<svc, seq, scope, event, http, estore, holdsWon, store, snap>>

(* createEvent: set of the event key *)
SCreateSet(p) ==
    /\ pc[p] = "sCreateSet"
    /\ event' = [event EXCEPT !.row = ActiveEvent(loc[p].total)]
    /\ Goto(p, "sCreateHSet", loc[p])
    /\ UNCHANGED <<svc, seq, scope, http, estore, holdsWon, store, snap>>

(* createEvent: hSet of the fields 1..totalSeats of the seats hash, each an *)
(* available seat; the other fields of the hash stay                       *)
SCreateHSet(p) ==
    /\ pc[p] = "sCreateHSet"
    /\ seats' = [n \in DOMAIN seats \cup (1..loc[p].total) |->
                    IF n \in 1..loc[p].total THEN AvailableSeat ELSE seats[n]]
    /\ Finish(p, loc[p])
    /\ UNCHANGED <<svc, seq, scope, event, http, estore, holdsWon, hold, userHolds, reservation, snap>>

(* the method has returned or thrown; the route handler answers *)
Return(p) ==
    /\ pc[p] = "done"
    /\ Goto(p, "idle", Idle0)
    /\ snap' = NoSnap
    /\ UNCHANGED <<svc, seq, scope, event, http, estore, holdsWon, store>>

(* an instant or a ttl, TickSec seconds later *)
Later(x) == IF x - TickSec < -TickSec THEN -TickSec ELSE x - TickSec

(* a hold as data (a local copy, or the value of a key) after TickSec seconds *)
AgeHold(h) == IF h = NoHold THEN NoHold ELSE [h EXCEPT !.expiresIn = Later(@)]

(* the hold key after TickSec seconds: evicted by Redis when its ttl is over *)
AgeHoldKey(h) ==
    IF h = NoHold \/ h.ttl - TickSec <= 0 THEN NoHold
    ELSE [h EXCEPT !.expiresIn = Later(@), !.ttl = @ - TickSec]

(* a Redis key with a ttl after TickSec seconds: none once the ttl is over.  *)
(* A ttl beyond Horizon is kept as "more than Horizon": such a key may stay *)
(* as it is (long) or have come down to Horizon.                            *)
Clip(ttl) == IF ttl > Horizon THEN Horizon + TickSec ELSE ttl

AgeKey(k, none, long) ==
    IF k = none \/ k.ttl - TickSec <= 0 THEN none
    ELSE IF k.ttl > Horizon /\ long THEN k
    ELSE [k EXCEPT !.ttl = @ - TickSec]

(* time passes; Redis evicts the keys whose TTL has elapsed *)
Tick ==
    /\ seq => \A q \in Procs : pc[q] = "idle"
    /\ hold' = [s \in Seats |-> AgeHoldKey(hold[s])]
    /\ loc' = [p \in Procs |-> [loc[p] EXCEPT !.h = AgeHold(@)]]
    /\ lock' = [s \in Seats |-> AgeKey(lock[s], NoLock, FALSE)]
    /\ \E long \in BOOLEAN :
          /\ seatCache' = [s \in Seats |-> AgeKey(seatCache[s], NoSeatCache, long)]
          /\ availCache' = AgeKey(availCache, NoAvailCache, long)
          /\ event' = [event EXCEPT !.cache = AgeKey(@, NoEvent, long)]
    /\ timers' = {[tm EXCEPT !.due = IF @ > TickSec THEN @ - TickSec ELSE 0] : tm \in timers}
    /\ UNCHANGED <<svc, seq, scope, http, seats, userHolds, reservation, rowLock, holdsWon, pc, snap>>

(* =============== EnhancedSeatService (PostgreSQL + Redis) ============== *)

(* a client calls a method of the EnhancedSeatService *)
ECall(p) ==
    /\ svc = "enhanced"
    /\ CanStart(p)
    /\ event.row # NoEvent
    /\ \E s \in scope.seats \cap DOMAIN seats, u \in Users, d \in scope.durs, op \in scope.ops :
          LET l == [Idle0 EXCEPT !.op = op,
                        !.seat = IF op = "avail" THEN 0 ELSE s,
                        !.user = IF op \in {"hold", "reserve", "refresh"} THEN u ELSE Null,
                        !.dur  = IF op \in {"hold", "refresh"} THEN d ELSE 0]
          IN  Goto(p, CASE op = "hold"    -> "eHoldLock"
                        [] op = "reserve" -> "eResGet"
                        [] op = "release" -> "eRelRead"
                        [] op = "refresh" -> "eRefGet"
                        [] op = "status"  -> "eStatCache"
                        [] op = "avail"   -> "eAvailCache", l)
    /\ snap' = IF seq THEN Snapshot ELSE NoSnap
    /\ UNCHANGED <<svc, seq, scope, event, http, estore, holdsWon, store>>

(* eventEmitter.emit('seatUpdated', data): the handler broadcasts to the    *)
(* WebSocket clients and writes data to the seat cache (updateSeatCache)    *)
Broadcast(l, status, u) ==
    Append(l.out, [type |-> "SEAT_UPDATE", seat |-> l.seat, status |-> status, userId |-> u])

updateSeatCache(s, status, u, heldAt, reservedAt) ==
    [seatCache EXCEPT ![s] = [status |-> status, userId |-> u, heldAt |-> heldAt,
                              reservedAt |-> reservedAt, ttl |-> Clip(SeatCacheTtl)]]

(* client.query('ROLLBACK') / COMMIT end the transaction: its row lock goes *)
Unlock(p) == [s \in Seats |-> IF rowLock[s] = p THEN 0 ELSE rowLock[s]]

(* holdSeat taking the gate key with a plain SET (no NX) *)
EHoldLockOverwrite(p) ==
    /\ pc[p] = "eHoldLock"
    /\ lock' = [lock EXCEPT ![loc[p].seat] = [by |-> p, ttl |-> LockTtl]]
    /\ Goto(p, "eHoldConnect", loc[p])
    /\ UNCHANGED <<svc, seq, scope, event, http, store, rowLock, seatCache, availCache, timers, holdsWon, snap>>

(* holdSeat: SET lockKey NX EX 10; a present key fails the call at once *)
EHoldLock(p) ==
    /\ pc[p] = "eHoldLock"
    /\ LET l == loc[p]
       IN  IF lock[l.seat] # NoLock
           THEN /\ Finish(p, [l EXCEPT !.err = ErrBusy])
                /\ UNCHANGED lock
           ELSE /\ lock' = [lock EXCEPT ![l.seat] = [by |-> p, ttl |-> LockTtl]]
                /\ Goto(p, "eHoldConnect", l)
    /\ UNCHANGED <<svc, seq, scope, event, http, store, rowLock, seatCache, availCache, timers, holdsWon, snap>>

(* holdSeat: pgPool.connect(), awaited before the try block: a rejection *)
(* leaves holdSeat at once, past its catch and finally blocks            *)
EHoldConnect(p) ==
    /\ pc[p] = "eHoldConnect"
    /\ \E f \in {"none"} \cup (scope.faults \cap {"connect"}) :
          IF f = "connect"
          THEN Finish(p, [loc[p] EXCEPT !.err = ErrStore])
          ELSE Goto(p, "eHoldSelect", loc[p])
    /\ UNCHANGED <<svc, seq, scope, event, http, store, estore, holdsWon, snap>>

(* holdSeat reading the seat row with a plain SELECT (no FOR UPDATE) *)
EHoldSelectPlain(p) ==
    /\ pc[p] = "eHoldSelect"
    /\ IF seats[loc[p].seat].status # "available"
       THEN Goto(p, "eHoldRollback", [loc[p] EXCEPT !.err = ErrNotAvailable])
       ELSE Goto(p, "eHoldCount", loc[p])
    /\ UNCHANGED <<svc, seq, scope, event, http, store, estore, holdsWon, snap>>

(* holdSeat: BEGIN; SELECT ... FOR UPDATE waits for the row lock, takes it *)
(* and reads the committed row; availability check                        *)
EHoldSelect(p) ==
    /\ pc[p] = "eHoldSelect"
    /\ rowLock[loc[p].seat] = 0
    /\ rowLock' = [rowLock EXCEPT ![loc[p].seat] = p]
    /\ IF seats[loc[p].seat].status # "available"
       THEN Goto(p, "eHoldRollback", [loc[p] EXCEPT !.err = ErrNotAvailable])
       ELSE Goto(p, "eHoldCount", loc[p])
    /\ UNCHANGED <<svc, seq, scope, event, http, store, lock, seatCache, availCache, timers, holdsWon, snap>>

(* holdSeat: sCard of the user's holds, quota check, heldAt = new Date() *)
EHoldCount(p) ==
    /\ pc[p] = "eHoldCount"
    /\ IF getUserHoldCount(loc[p].user) >= MaxHoldsPerUser
       THEN Goto(p, "eHoldRollback", [loc[p] EXCEPT !.err = ErrQuota])
       ELSE Goto(p, "eHoldUpdate", [loc[p] EXCEPT !.t = SetT])
    /\ UNCHANGED <<svc, seq, scope, event, http, store, estore, holdsWon, snap>>

(* holdSeat: UPDATE seats SET status = 'held', user_id, held_at (pending *)
(* until COMMIT); then holdData with its expiresAt                        *)
EHoldUpdate(p) ==
    /\ pc[p] = "eHoldUpdate"
    /\ LET l == loc[p]
       IN  Goto(p, "eHoldSetEx", [l EXCEPT
               !.upd = [seats[l.seat] EXCEPT !.status = "held", !.userId = l.user, !.heldAt = l.t],
               !.dirty = TRUE,
               !.h = [userId |-> l.user, heldAt |-> l.t, expiresIn |-> l.dur, ttl |-> 0]])
    /\ UNCHANGED <<svc, seq, scope, event, http, store, estore, holdsWon, snap>>

(* holdSeat: setEx(hold:<e>:<s>, holdDuration, holdData) *)
EHoldSetEx(p) ==
    /\ pc[p] = "eHoldSetEx"
    /\ LET l == loc[p]
       IN  \E f \in {"none"} \cup (scope.faults \cap {"setEx"}) :
              IF f = "setEx"
              THEN Goto(p, "eHoldRollback", [l EXCEPT !.err = ErrStore]) /\ UNCHANGED hold
              ELSE /\ hold' = [hold EXCEPT ![l.seat] = [l.h EXCEPT !.ttl = l.dur]]
                   /\ Goto(p, "eHoldSAdd", l)
    /\ UNCHANGED <<svc, seq, scope, event, http, seats, userHolds, reservation, estore, holdsWon, snap>>

(* holdSeat without the sAdd to the user's holds *)
EHoldSAddSkipped(p) ==
    /\ pc[p] = "eHoldSAdd"
    /\ LET l == loc[p]
       IN  /\ timers' = timers \cup {[seat |-> l.seat, due |-> l.dur]}
           /\ seatCache' = updateSeatCache(l.seat, "held", l.user, l.t, NullT)
           /\ Goto(p, "eHoldPublish", [l EXCEPT !.out = Broadcast(l, "held", l.user)])
    /\ UNCHANGED <<svc, seq, scope, event, http, store, lock, rowLock, availCache, holdsWon, snap>>

(* holdSeat: sAdd to the user's holds; setTimeout of holdExpired; emit of *)
(* seatUpdated (broadcast and seat cache)                                  *)
EHoldSAdd(p) ==
    /\ pc[p] = "eHoldSAdd"
    /\ LET l == loc[p]
       IN  /\ userHolds' = [userHolds EXCEPT ![l.user] = @ \cup {l.seat}]
           /\ timers' = timers \cup {[seat |-> l.seat, due |-> l.dur]}
           /\ seatCache' = updateSeatCache(l.seat, "held", l.user, l.t, NullT)
           /\ Goto(p, "eHoldPublish", [l EXCEPT !.out = Broadcast(l, "held", l.user)])
    /\ UNCHANGED <<svc, seq, scope, event, http, seats, hold, reservation, lock, rowLock, availCache, holdsWon, snap>>

(* holdSeat: messageQueue.publish('notifications', SEAT_HELD); a rejected *)
(* xAdd is thrown into the catch block                                    *)
EHoldPublish(p) ==
    /\ pc[p] = "eHoldPublish"
    /\ LET l == loc[p]
       IN  \E f \in {"none"} \cup (scope.faults \cap {"publish"}) :
              IF f = "publish"
              THEN Goto(p, "eHoldRollback", [l EXCEPT !.err = ErrPublish])
              ELSE Goto(p, "eHoldCommit", [l EXCEPT !.out = Append(@,
                      [type |-> "SEAT_HELD", seat |-> l.seat, status |-> "held", userId |-> l.user])])
    /\ UNCHANGED <<svc, seq, scope, event, http, store, estore, holdsWon, snap>>

(* holdSeat: COMMIT *)
EHoldCommit(p) ==
    /\ pc[p] = "eHoldCommit"
    /\ LET l == loc[p]
       IN  /\ seats' = [seats EXCEPT ![l.seat] = l.upd]
           /\ rowLock' = Unlock(p)
           /\ holdsWon' = [holdsWon EXCEPT ![l.seat] = @ + 1]
           /\ Goto(p, "eHoldFinally", [l EXCEPT !.upd = AvailableSeat, !.dirty = FALSE])
    /\ UNCHANGED <<svc, seq, scope, event, http, hold, userHolds, reservation, lock, seatCache, availCache, timers, snap>>

(* holdSeat: catch: ROLLBACK *)
EHoldRollback(p) ==
    /\ pc[p] = "eHoldRollback"
    /\ rowLock' = Unlock(p)
    /\ Goto(p, "eHoldFinally", [loc[p] EXCEPT !.upd = AvailableSeat, !.dirty = FALSE])
    /\ UNCHANGED <<svc, seq, scope, event, http, store, lock, seatCache, availCache, timers, holdsWon, snap>>

(* holdSeat: finally: client.release(); del(lockKey) *)
EHoldFinally(p) ==
    /\ pc[p] = "eHoldFinally"
    /\ lock' = [lock EXCEPT ![loc[p].seat] = NoLock]
    /\ Finish(p, loc[p])
    /\ UNCHANGED <<svc, seq, scope, event, http, store, rowLock, seatCache, availCache, timers, holdsWon, snap>>

(* reserveSeat: catch: ROLLBACK; finally: client.release() *)
EResFail(p, l, msg) == Goto(p, "eResRollback", [l EXCEPT !.err = msg])

(* releaseSeat has finished: control goes back to where it was called from *)
ERelDone(p, l) ==
    CASE l.cont = "top"        -> Finish(p, l)
      [] l.cont = "expiredRes" -> EResFail(p, l, ErrExpired)
      [] l.cont = "expiredRef" -> Finish(p, [l EXCEPT !.err = ErrExpired])

(* releaseSeat: BEGIN; SELECT of the seat row; a seat that is not held is *)
(* left alone (COMMIT of the empty transaction)                           *)
ERelRead(p) ==
    /\ pc[p] = "eRelRead"
    /\ LET l == [loc[p] EXCEPT !.rrow = seats[loc[p].seat]]
       IN  IF l.rrow.status = "held"
           THEN Goto(p, "eRelUpdate", [l EXCEPT !.rrow = [AvailableSeat EXCEPT !.userId = l.rrow.userId]])
           ELSE ERelDone(p, [l EXCEPT !.rrow = AvailableSeat])
    /\ UNCHANGED <<svc, seq, scope, event, http, store, estore, holdsWon, snap>>

(* releaseSeat: UPDATE seats SET status = 'available', user_id = NULL,    *)
(* held_at = NULL WHERE event_id AND seat_number (waits for the row lock) *)
ERelUpdate(p) ==
    /\ pc[p] = "eRelUpdate"
    /\ rowLock[loc[p].seat] = 0
    /\ rowLock' = [rowLock EXCEPT ![loc[p].seat] = p]
    /\ LET l == loc[p]
       IN  Goto(p, "eRelDel", [l EXCEPT !.dirty = TRUE,
               !.upd = [seats[l.seat] EXCEPT !.status = "available", !.userId = Null, !.heldAt = NullT]])
    /\ UNCHANGED <<svc, seq, scope, event, http, store, lock, seatCache, availCache, timers, holdsWon, snap>>

(* releaseSeat: emit of seatUpdated with status available *)
ERelEmit(p, l) ==
    /\ seatCache' = updateSeatCache(l.seat, "available", Null, NullT, NullT)
    /\ Goto(p, "eRelCommit", [l EXCEPT !.out = Broadcast(l, "available", Null)])

(* releaseSeat without the del of the hold key *)
ERelDelSkipped(p) ==
    /\ pc[p] = "eRelDel"
    /\ LET l == loc[p]
       IN  IF l.rrow.userId # Null
           THEN Goto(p, "eRelSRem", l) /\ UNCHANGED seatCache
           ELSE ERelEmit(p, l)
    /\ UNCHANGED <<svc, seq, scope, event, http, store, lock, rowLock, availCache, timers, holdsWon, snap>>

(* releaseSeat: del of the hold key *)
ERelDel(p) ==
    /\ pc[p] = "eRelDel"
    /\ LET l == loc[p]
       IN  /\ hold' = [hold EXCEPT ![l.seat] = NoHold]
           /\ IF l.rrow.userId # Null
              THEN Goto(p, "eRelSRem", l) /\ UNCHANGED seatCache
              ELSE ERelEmit(p, l)
    /\ UNCHANGED <<svc, seq, scope, event, http, seats, userHolds, reservation, lock, rowLock, availCache, timers, holdsWon, snap>>

(* releaseSeat: sRem from the holds of the user read from the row; emit *)
ERelSRem(p) ==
    /\ pc[p] = "eRelSRem"
    /\ LET l == loc[p]
       IN  /\ userHolds' = [userHolds EXCEPT ![l.rrow.userId] = @ \ {l.seat}]
           /\ ERelEmit(p, l)
    /\ UNCHANGED <<svc, seq, scope, event, http, seats, hold, reservation, lock, rowLock, availCache, timers, holdsWon, snap>>

(* releaseSeat: COMMIT *)
ERelCommit(p) ==
    /\ pc[p] = "eRelCommit"
    /\ LET l == loc[p]
       IN  /\ seats' = [seats EXCEPT ![l.seat] = l.upd]
           /\ rowLock' = Unlock(p)
           /\ holdsWon' = [holdsWon EXCEPT ![l.seat] = 0]
           /\ ERelDone(p, [l EXCEPT !.upd = AvailableSeat, !.dirty = FALSE, !.rrow = AvailableSeat])
    /\ UNCHANGED <<svc, seq, scope, event, http, hold, userHolds, reservation, lock, seatCache, availCache, timers, snap>>

(* reserveSeat: BEGIN; get of the hold key, ownership checks; reservedAt *)
EResGet(p) ==
    /\ pc[p] = "eResGet"
    /\ LET l == loc[p]
           e == HoldCheck(HoldData(hold[l.seat]), l.user)
       IN  IF e = ErrExpired THEN Goto(p, "eRelRead", [l EXCEPT !.cont = "expiredRes"])
           ELSE IF e # NoErr THEN EResFail(p, l, e)
           ELSE Goto(p, "eResUpdate", [l EXCEPT !.t = SetT])
    /\ UNCHANGED <<svc, seq, scope, event, http, store, estore, holdsWon, snap>>

(* reserveSeat: UPDATE seats SET status = 'reserved', reserved_at WHERE   *)
(* event_id AND seat_number (waits for the row lock)                      *)
EResUpdate(p) ==
    /\ pc[p] = "eResUpdate"
    /\ rowLock[loc[p].seat] = 0
    /\ rowLock' = [rowLock EXCEPT ![loc[p].seat] = p]
    /\ LET l == loc[p]
       IN  Goto(p, "eResInsert", [l EXCEPT !.dirty = TRUE,
               !.upd = [seats[l.seat] EXCEPT !.status = "reserved", !.reservedAt = l.t]])
    /\ UNCHANGED <<svc, seq, scope, event, http, store, lock, seatCache, availCache, timers, holdsWon, snap>>

(* reserveSeat: INSERT INTO reservations; UNIQUE(event_id, seat_number) *)
EResInsert(p) ==
    /\ pc[p] = "eResInsert"
    /\ IF reservation[loc[p].seat] # NoReservation
       THEN EResFail(p, loc[p], ErrDuplicate)
       ELSE Goto(p, "eResDel", [loc[p] EXCEPT !.ins = TRUE])
    /\ UNCHANGED <<svc, seq, scope, event, http, store, estore, holdsWon, snap>>

(* reserveSeat: del of the hold key *)
EResDel(p) ==
    /\ pc[p] = "eResDel"
    /\ hold' = [hold EXCEPT ![loc[p].seat] = NoHold]
    /\ Goto(p, "eResSRem", loc[p])
    /\ UNCHANGED <<svc, seq, scope, event, http, seats, userHolds, reservation, estore, holdsWon, snap>>

(* reserveSeat: sRem from the caller's holds; emit of seatUpdated *)
EResSRem(p) ==
    /\ pc[p] = "eResSRem"
    /\ LET l == loc[p]
       IN  /\ userHolds' = [userHolds EXCEPT ![l.user] = @ \ {l.seat}]
           /\ seatCache' = updateSeatCache(l.seat, "reserved", l.user, NullT, l.t)
           /\ Goto(p, "eResPublish", [l EXCEPT !.out = Broadcast(l, "reserved", l.user)])
    /\ UNCHANGED <<svc, seq, scope, event, http, seats, hold, reservation, lock, rowLock, availCache, timers, holdsWon, snap>>

(* reserveSeat: messageQueue.publish('notifications', SEAT_RESERVED); a *)
(* rejected xAdd is thrown into the catch block                          *)
EResPublish(p) ==
    /\ pc[p] = "eResPublish"
    /\ LET l == loc[p]
       IN  \E f \in {"none"} \cup (scope.faults \cap {"publish"}) :
              IF f = "publish"
              THEN EResFail(p, l, ErrPublish)
              ELSE Goto(p, "eResCommit", [l EXCEPT !.out = Append(@,
                      [type |-> "SEAT_RESERVED", seat |-> l.seat, status |-> "reserved", userId |-> l.user])])
    /\ UNCHANGED <<svc, seq, scope, event, http, store, estore, holdsWon, snap>>

(* reserveSeat: COMMIT; return the reservation *)
EResCommit(p) ==
    /\ pc[p] = "eResCommit"
    /\ LET l == loc[p]
       IN  /\ seats' = [seats EXCEPT ![l.seat] = l.upd]
           /\ reservation' = [reservation EXCEPT ![l.seat] = [userId |-> l.user, reservedAt |-> l.t]]
           /\ rowLock' = Unlock(p)
           /\ holdsWon' = [holdsWon EXCEPT ![l.seat] = 0]
           /\ Finish(p, l)
    /\ UNCHANGED <<svc, seq, scope, event, http, hold, userHolds, lock, seatCache, availCache, timers, snap>>

(* reserveSeat: catch: ROLLBACK; rethrow *)
EResRollback(p) ==
    /\ pc[p] = "eResRollback"
    /\ rowLock' = Unlock(p)
    /\ Finish(p, loc[p])
    /\ UNCHANGED <<svc, seq, scope, event, http, store, lock, seatCache, availCache, timers, holdsWon, snap>>

(* refreshSeatHold: get of the hold key, ownership checks, newExpiresAt *)
ERefGet(p) ==
    /\ pc[p] = "eRefGet"
    /\ LET l == [loc[p] EXCEPT !.h = HoldData(hold[loc[p].seat])]
           e == HoldCheck(l.h, l.user)
       IN  IF e = ErrExpired THEN Goto(p, "eRelRead", [l EXCEPT !.cont = "expiredRef", !.h = NoHold])
           ELSE IF e # NoErr THEN Finish(p, [l EXCEPT !.err = e])
           ELSE Goto(p, "eRefSetEx", [l EXCEPT !.h = [l.h EXCEPT !.expiresIn = l.dur]])
    /\ UNCHANGED <<svc, seq, scope, event, http, store, estore, holdsWon, snap>>

(* refreshSeatHold: setEx of the hold key; setTimeout of holdExpired *)
ERefSetEx(p) ==
    /\ pc[p] = "eRefSetEx"
    /\ LET l == loc[p]
       IN  /\ hold' = [hold EXCEPT ![l.seat] = [l.h EXCEPT !.ttl = l.dur]]
           /\ timers' = timers \cup {[seat |-> l.seat, due |-> l.dur]}
           /\ Finish(p, l)
    /\ UNCHANGED <<svc, seq, scope, event, http, seats, userHolds, reservation, lock, rowLock, seatCache, availCache, holdsWon, snap>>

(* SELECT seat_number ... WHERE status = 'available' ORDER BY seat_number *)
RECURSIVE Ascending(_)
Ascending(S) == IF S = {} THEN <<>> ELSE <<Min(S)>> \o Ascending(S \ {Min(S)})

(* getAvailableSeats: get of available_seats:<e>; a cached list is returned *)
EAvailCache(p) ==
    /\ pc[p] = "eAvailCache"
    /\ IF availCache # NoAvailCache
       THEN Finish(p, [loc[p] EXCEPT !.acc = availCache.list])
       ELSE Goto(p, "eAvailQuery", loc[p])
    /\ UNCHANGED <<svc, seq, scope, event, http, store, estore, holdsWon, snap>>

(* getAvailableSeats: the SELECT of the available seats *)
EAvailQuery(p) ==
    /\ pc[p] = "eAvailQuery"
    /\ Goto(p, "eAvailSetEx", [loc[p] EXCEPT !.acc =
           Ascending({s \in DOMAIN seats : seats[s].status = "available"})])
    /\ UNCHANGED <<svc, seq, scope, event, http, store, estore, holdsWon, snap>>

(* getAvailableSeats: setEx(available_seats:<e>, 30, list) *)
EAvailSetEx(p) ==
    /\ pc[p] = "eAvailSetEx"
    /\ availCache' = [list |-> loc[p].acc, ttl |-> Clip(AvailCacheTtl)]
    /\ Finish(p, loc[p])
    /\ UNCHANGED <<svc, seq, scope, event, http, store, lock, rowLock, seatCache, timers, holdsWon, snap>>

(* getSeatStatus: get of seat:<e>:<s>; a cached seat is returned *)
EStatCache(p) ==
    /\ pc[p] = "eStatCache"
    /\ LET c == seatCache[loc[p].seat]
       IN  IF c # NoSeatCache
           THEN Finish(p, [loc[p] EXCEPT !.row = [status |-> c.status, userId |-> c.userId,
                                                  heldAt |-> c.heldAt, reservedAt |-> c.reservedAt]])
           ELSE Goto(p, "eStatQuery", loc[p])
    /\ UNCHANGED <<svc, seq, scope, event, http, store, estore, holdsWon, snap>>

(* getSeatStatus: the SELECT of the seat row *)
EStatQuery(p) ==
    /\ pc[p] = "eStatQuery"
    /\ Goto(p, "eStatSetEx", [loc[p] EXCEPT !.row = seats[loc[p].seat]])
    /\ UNCHANGED <<svc, seq, scope, event, http, store, estore, holdsWon, snap>>

(* getSeatStatus: setEx(seat:<e>:<s>, 300, seatData) *)
EStatSetEx(p) ==
    /\ pc[p] = "eStatSetEx"
    /\ LET r == loc[p].row
       IN  seatCache' = updateSeatCache(loc[p].seat, r.status, r.userId, r.heldAt, r.reservedAt)
    /\ Finish(p, loc[p])
    /\ UNCHANGED <<svc, seq, scope, event, http, store, lock, rowLock, availCache, timers, holdsWon, snap>>

(* createEvent: BEGIN; the seat count check; SELECT id FROM events *)
ECreateSelect(p) ==
    /\ pc[p] = "eCreateSelect"
    /\ IF loc[p].total < MinTotalSeats \/ loc[p].total > MaxTotalSeats
       THEN Goto(p, "eCreateRollback", [loc[p] EXCEPT !.err = ErrSeatCount])
       ELSE IF event.row # NoEvent
       THEN Goto(p, "eCreateRollback", [loc[p] EXCEPT !.err = ErrExists])
       ELSE Goto(p, "eCreateInsert", loc[p])
    /\ UNCHANGED <<svc, seq, scope, event, http, store, estore, holdsWon, snap>>

(* createEvent: INSERT INTO events; the primary key makes the statement wait *)
(* for a transaction that has inserted the same id, and fail when that row  *)
(* is committed                                                             *)
ECreateInsert(p) ==
    /\ pc[p] = "eCreateInsert"
    /\ \A q \in Procs \ {p} : pc[q] \notin {"eCreateSeats", "eCreateSetEx", "eCreateCommit"}
    /\ IF event.row # NoEvent
       THEN Goto(p, "eCreateRollback", [loc[p] EXCEPT !.err = ErrDuplicate])
       ELSE Goto(p, "eCreateSeats", [loc[p] EXCEPT !.ins = TRUE])
    /\ UNCHANGED <<svc, seq, scope, event, http, store, estore, holdsWon, snap>>

(* createEvent: INSERT INTO seats of the rows 1..totalSeats *)
ECreateSeats(p) ==
    /\ pc[p] = "eCreateSeats"
    /\ Goto(p, "eCreateSetEx", loc[p])
    /\ UNCHANGED <<svc, seq, scope, event, http, store, estore, holdsWon, snap>>

(* createEvent: setEx(event:<e>, 3600, event) *)
ECreateSetEx(p) ==
    /\ pc[p] = "eCreateSetEx"
    /\ event' = [event EXCEPT !.cache = [ActiveEvent(loc[p].total) EXCEPT !.ttl = Clip(EventCacheTtl)]]
    /\ Goto(p, "eCreateCommit", loc[p])
    /\ UNCHANGED <<svc, seq, scope, http, store, estore, holdsWon, snap>>

(* createEvent: COMMIT - the events row and the seats rows become visible *)
ECreateCommit(p) ==
    /\ pc[p] = "eCreateCommit"
    /\ event' = [event EXCEPT !.row = ActiveEvent(loc[p].total)]
    /\ seats' = [n \in 1..loc[p].total |-> AvailableSeat]
    /\ Finish(p, loc[p])
    /\ UNCHANGED <<svc, seq, scope, http, hold, userHolds, reservation, estore, holdsWon, snap>>

(* createEvent: catch - ROLLBACK, and the error is thrown again *)
ECreateRollback(p) ==
    /\ pc[p] = "eCreateRollback"
    /\ Finish(p, loc[p])
    /\ UNCHANGED <<svc, seq, scope, event, http, store, estore, holdsWon, snap>>

(* a setTimeout callback runs: emit of holdExpired, whose handler calls *)
(* releaseSeat(eventId, seatNumber)                                     *)
TimerFire(p) ==
    /\ CanStart(p)
    /\ \E tm \in timers :
          /\ tm.due = 0
          /\ timers' = timers \ {tm}
          /\ Goto(p, "eRelRead", [Idle0 EXCEPT !.op = "release", !.seat = tm.seat, !.src = "timer"])
    /\ snap' = IF seq THEN Snapshot ELSE NoSnap
    /\ UNCHANGED <<svc, seq, scope, event, http, store, lock, rowLock, seatCache, availCache, holdsWon>>

(* ===================== routes and errorHandler ======================= *)

(* the :seatNumber path parameters: strings of the characters 0, 2, - and x *)
SeatParams == UNION {[1..n -> {"0", "2", "-", "x"}] : n \in 1..MaxParamLen}

(* the :eventId path parameters: a UUID, and the id the tests use *)
EventIdParams == {"123e4567-e89b-12d3-a456-426614174000", "test-event-id"}

(* /^[0-9a-f]{8}-[0-9a-f]{4}-[0-9a-f]{4}-[0-9a-f]{4}-[0-9a-f]{12}$/i.test(eventId) *)
IsUuid(eventId) == eventId = "123e4567-e89b-12d3-a456-426614174000"

(* parseInt(str, 10): an optional sign, then the longest prefix of decimal *)
(* digits; NaN when there is no digit                                      *)
parseInt(str) ==
    LET Digit(c) == CASE c = "0" -> 0 [] c = "2" -> 2 [] OTHER -> -1
        neg  == Len(str) > 0 /\ str[1] = "-"
        body == IF neg THEN Tail(str) ELSE str
        RECURSIVE Value(_, _)
        Value(i, acc) == IF i > Len(body) \/ Digit(body[i]) < 0 THEN acc
                         ELSE Value(i + 1, 10 * acc + Digit(body[i]))
    IN  IF Len(body) = 0 \/ Digit(body[1]) < 0 THEN [isNaN |-> TRUE, n |-> 0]
        ELSE [isNaN |-> FALSE, n |-> IF neg THEN 0 - Value(1, 0) ELSE Value(1, 0)]

(* the text of an error message, word by word *)
Words(msg) ==
    CASE msg = ErrNotAvailable  -> <<"Seat", "is", "not", "available">>
      [] msg = ErrQuota         -> <<"User", "can", "hold", "maximum", "N", "seats">>
      [] msg = ErrNotHeld       -> <<"Seat", "is", "not", "held">>
      [] msg = ErrOtherUser     -> <<"Seat", "is", "held", "by", "another", "user">>
      [] msg = ErrExpired       -> <<"Seat", "hold", "has", "expired">>
      [] msg = ErrBusy          -> <<"Seat", "is", "currently", "being", "processed", "by", "another", "user">>
      [] msg = ErrDuplicate     -> <<"duplicate", "key", "value", "violates", "unique", "constraint">>
      [] msg = ErrPublish       -> <<"xAdd", "failed">>
      [] msg = ErrSeatCount     -> <<"Total", "seats", "must", "be", "between", "10", "and", "1000">>
      [] msg = ErrExists        -> <<"Event", "already", "exists">>
      [] msg = ErrEventNotFound -> <<"Event", "not", "found">>
      [] msg = ErrSeatNotFound  -> <<"Seat", "not", "found">>
      [] msg = ErrInvalidSeat   -> <<"Invalid", "seat", "number">>

(* err.message.includes(pat), for a pat that is made of whole words *)
includes(msg, pat) ==
    \E i \in 0..(Len(Words(msg)) - Len(pat)) :
        \A j \in 1..Len(pat) : Words(msg)[i + j] = pat[j]

(* errorHandler: the status and the error of the response to a thrown error *)
errorHandler(name, msg) ==
    IF name = "ValidationError" THEN [status |-> 400, error |-> "Validation error"]
    ELSE IF name = "CastError" THEN [status |-> 400, error |-> "Invalid data format"]
    ELSE IF includes(msg, <<"not", "found">>) THEN [status |-> 404, error |-> msg]
    ELSE IF includes(msg, <<"already", "exists">>) THEN [status |-> 409, error |-> msg]
    ELSE IF \/ includes(msg, <<"not", "available">>)
            \/ includes(msg, <<"held", "by", "another", "user">>)
            \/ includes(msg, <<"has", "expired">>) THEN [status |-> 409, error |-> msg]
    ELSE IF \/ includes(msg, <<"Invalid">>)
            \/ includes(msg, <<"must", "be", "between">>) THEN [status |-> 400, error |-> msg]
    ELSE IF includes(msg, <<"maximum">>) THEN [status |-> 429, error |-> msg]
    ELSE [status |-> 500, error |-> ErrInternal]

(* the /:eventId/:seatNumber routes; "create" is POST /api/events *)
SeatRoutes == {"hold", "reserve", "refresh", "status", "release"}

(* the errors the method that a route calls throws, in either seat service *)
RouteErrors(r) ==
    CASE r = "create"  -> {ErrSeatCount, ErrExists}
      [] r = "hold"    -> {ErrEventNotFound, ErrInvalidSeat, ErrSeatNotFound, ErrNotAvailable,
                           ErrQuota, ErrBusy, ErrPublish}
      [] r = "reserve" -> {ErrNotHeld, ErrOtherUser, ErrExpired, ErrSeatNotFound,
                           ErrDuplicate, ErrPublish}
      [] r = "refresh" -> {ErrNotHeld, ErrOtherUser, ErrExpired}
      [] r = "release" -> {ErrSeatNotFound}
      [] r = "status"  -> {ErrSeatNotFound}

(* a request arrives at one of the /:eventId/:seatNumber routes, or at    *)
(* POST /api/events (which has no path parameters)                        *)
HttpRequest ==
    /\ http.stage = "none"
    /\ \E r \in SeatRoutes \cup {"create"}, e \in EventIdParams, sn \in SeatParams :
          http' = IF r = "create"
                  THEN [NoRequest EXCEPT !.stage = "received", !.route = r]
                  ELSE [NoRequest EXCEPT !.stage = "received", !.route = r,
                                         !.eventIdOk = IsUuid(e), !.seatNumber = sn]
    /\ UNCHANGED <<svc, seq, scope, event, store, estore, holdsWon, pc, loc, snap>>

(* the route handler up to its await: the eventId check, the seat number *)
(* check, and the call of the seat service                               *)
RouteHandler ==
    /\ http.stage = "received"
    /\ LET seatNum == parseInt(http.seatNumber)
       IN  http' = IF http.route = "create"
                   THEN [http EXCEPT !.stage = "called", !.called = TRUE]
                   ELSE IF ~http.eventIdOk
                   THEN [http EXCEPT !.stage = "answered", !.status = 400, !.error = ErrEventIdFormat]
                   ELSE IF seatNum.isNaN \/ seatNum.n < 1
                   THEN [http EXCEPT !.stage = "answered", !.status = 400, !.error = ErrInvalidSeat]
                   ELSE [http EXCEPT !.stage = "called", !.called = TRUE]
    /\ UNCHANGED <<svc, seq, scope, event, store, estore, holdsWon, pc, loc, snap>>

(* the seat service returns: the handler answers 201 (create, hold, reserve) *)
(* or 200                                                                   *)
ServiceReturns ==
    /\ http.stage = "called"
    /\ http' = [http EXCEPT !.stage = "answered",
                            !.status = IF http.route \in {"create", "hold", "reserve"} THEN 201 ELSE 200]
    /\ UNCHANGED <<svc, seq, scope, event, store, estore, holdsWon, pc, loc, snap>>

(* the seat service throws: catch, next(error), errorHandler answers *)
ServiceThrows ==
    /\ http.stage = "called"
    /\ \E nm \in {"Error", "ValidationError", "CastError"}, msg \in RouteErrors(http.route) :
          LET r == errorHandler(nm, msg)
          IN  http' = [http EXCEPT !.stage = "answered", !.name = nm, !.thrown = msg,
                                   !.status = r.status, !.error = r.error]
    /\ UNCHANGED <<svc, seq, scope, event, store, estore, holdsWon, pc, loc, snap>>

(* the response is sent *)
HttpResponse ==
    /\ http.stage = "answered"
    /\ http' = NoRequest
    /\ UNCHANGED <<svc, seq, scope, event, store, estore, holdsWon, pc, loc, snap>>

(* ---------------------------- specifications ------------------------- *)
AllOps == {"hold", "reserve", "release", "refresh", "status", "avail"}

StepsSHold ==
    \/ \E p \in Procs : SHoldRead(p)
    \/ \E p \in Procs : SHoldCount(p)
    \/ \E p \in Procs : SHoldWrite(p)
    \/ \E p \in Procs : SHoldSetEx(p)
    \/ \E p \in Procs : SHoldSAdd(p)

StepsSRelease ==
    \/ \E p \in Procs : SRelRead(p)
    \/ \E p \in Procs : SRelWrite(p)
    \/ \E p \in Procs : SRelDel(p)
    \/ \E p \in Procs : SRelSRem(p)

StepsSReserve ==
    \/ \E p \in Procs : SResGet(p)
    \/ \E p \in Procs : SResRead(p)
    \/ \E p \in Procs : SResWrite(p)
    \/ \E p \in Procs : SResDel(p)
    \/ \E p \in Procs : SResSet(p)
    \/ \E p \in Procs : SResSRem(p)

StepsSRefresh ==
    \/ \E p \in Procs : SRefGet(p)
    \/ \E p \in Procs : SRefSetEx(p)

StepsSRead ==
    \/ \E p \in Procs : SStatRead(p)
    \/ \E p \in Procs : SStatHold(p)
    \/ \E p \in Procs : SAvailAll(p)
    \/ \E p \in Procs : SAvailHold(p)

StepsEHold ==
    \/ \E p \in Procs : EHoldLock(p)
    \/ \E p \in Procs : EHoldConnect(p)
    \/ \E p \in Procs : EHoldSelect(p)
    \/ \E p \in Procs : EHoldCount(p)
    \/ \E p \in Procs : EHoldUpdate(p)
    \/ \E p \in Procs : EHoldSetEx(p)
    \/ \E p \in Procs : EHoldSAdd(p)
    \/ \E p \in Procs : EHoldPublish(p)
    \/ \E p \in Procs : EHoldCommit(p)
    \/ \E p \in Procs : EHoldRollback(p)
    \/ \E p \in Procs : EHoldFinally(p)

StepsERelease ==
    \/ \E p \in Procs : ERelRead(p)
    \/ \E p \in Procs : ERelUpdate(p)
    \/ \E p \in Procs : ERelDel(p)
    \/ \E p \in Procs : ERelSRem(p)
    \/ \E p \in Procs : ERelCommit(p)
    \/ \E p \in Procs : TimerFire(p)

StepsEReserve ==
    \/ \E p \in Procs : EResGet(p)
    \/ \E p \in Procs : EResUpdate(p)
    \/ \E p \in Procs : EResInsert(p)
    \/ \E p \in Procs : EResDel(p)
    \/ \E p \in Procs : EResSRem(p)
    \/ \E p \in Procs : EResPublish(p)
    \/ \E p \in Procs : EResCommit(p)
    \/ \E p \in Procs : EResRollback(p)

StepsERefresh ==
    \/ \E p \in Procs : ERefGet(p)
    \/ \E p \in Procs : ERefSetEx(p)

StepsERead ==
    \/ \E p \in Procs : EAvailCache(p)
    \/ \E p \in Procs : EAvailQuery(p)
    \/ \E p \in Procs : EAvailSetEx(p)
    \/ \E p \in Procs : EStatCache(p)
    \/ \E p \in Procs : EStatQuery(p)
    \/ \E p \in Procs : EStatSetEx(p)

StepsSCreate ==
    \/ \E p \in Procs : SCreateGet(p)
    \/ \E p \in Procs : SCreateSet(p)
    \/ \E p \in Procs : SCreateHSet(p)

StepsECreate ==
    \/ \E p \in Procs : ECreateSelect(p)
    \/ \E p \in Procs : ECreateInsert(p)
    \/ \E p \in Procs : ECreateSeats(p)
    \/ \E p \in Procs : ECreateSetEx(p)
    \/ \E p \in Procs : ECreateCommit(p)
    \/ \E p \in Procs : ECreateRollback(p)

(* the calls return to their callers, and time passes *)
Env ==
    \/ \E p \in Procs : Return(p)
    \/ Tick

(* Sequential use of either service: one client, whose calls (and the timer *)
(* callbacks) do not overlap; every operation, on every seat.               *)
InitSeq ==
    /\ svc \in {"redis", "enhanced"} /\ seq = TRUE /\ InitStore
    /\ scope = [ops |-> AllOps, seats |-> Seats, durs |-> {10}, faults |-> {}, totals |-> {}]

NextSeq ==
    \/ \E p \in Procs : SCall(p)
    \/ StepsSHold \/ StepsSRelease \/ StepsSReserve \/ StepsSRefresh \/ StepsSRead
    \/ \E p \in Procs : ECall(p)
    \/ StepsEHold \/ StepsERelease \/ StepsEReserve \/ StepsERefresh \/ StepsERead
    \/ Env

SpecSeq == InitSeq /\ [][NextSeq]_vars

(* SeatService, concurrent clients racing on one seat *)
InitS ==
    /\ svc = "redis" /\ seq = FALSE /\ InitStore
    /\ scope = [ops |-> {"hold", "reserve", "release", "refresh"}, seats |-> {1}, durs |-> {10}, faults |-> {}, totals |-> {}]

NextS ==
    \/ \E p \in Procs : SCall(p)
    \/ StepsSHold \/ StepsSRelease \/ StepsSReserve \/ StepsSRefresh
    \/ Env

SpecS == InitS /\ [][NextS]_vars

(* SeatService, concurrent holdSeat calls on the seats of the event *)
InitQuota ==
    /\ svc = "redis" /\ seq = FALSE /\ InitStore
    /\ scope = [ops |-> {"hold"}, seats |-> Seats, durs |-> {10}, faults |-> {}, totals |-> {}]

NextQuota ==
    \/ \E p \in Procs : SCall(p)
    \/ StepsSHold
    \/ Env

SpecQuota == InitQuota /\ [][NextQuota]_vars

(* EnhancedSeatService, concurrent holdSeat calls on one seat, whose holds *)
(* lapse and are released by the holdExpired timers                       *)
InitE ==
    /\ svc = "enhanced" /\ seq = FALSE /\ InitStore
    /\ scope = [ops |-> {"hold"}, seats |-> {1}, durs |-> {10}, faults |-> {}, totals |-> {}]

NextE ==
    \/ \E p \in Procs : ECall(p)
    \/ StepsEHold \/ StepsERelease
    \/ Env

SpecE == InitE /\ [][NextE]_vars

(* Sequential use of EnhancedSeatService while the message stream may be   *)
(* unavailable: holdSeat and reserveSeat on one seat, each publish either  *)
(* succeeding or rejecting.                                                *)
InitFault ==
    /\ svc = "enhanced" /\ seq = TRUE /\ InitStore
    /\ scope = [ops |-> {"hold", "reserve"}, seats |-> {1}, durs |-> {10}, faults |-> {"publish"}, totals |-> {}]

NextFault ==
    \/ \E p \in Procs : ECall(p)
    \/ StepsEHold \/ StepsERelease \/ StepsEReserve
    \/ Env

SpecFault == InitFault /\ [][NextFault]_vars

(* Sequential use of EnhancedSeatService by clients that hold seats and   *)
(* refresh their holds and never release or reserve: one seat, both hold  *)
(* durations.                                                             *)
InitRefresh ==
    /\ svc = "enhanced" /\ seq = TRUE /\ InitStore
    /\ scope = [ops |-> {"hold", "refresh"}, seats |-> {1}, durs |-> Durations, faults |-> {}, totals |-> {}]

NextRefresh ==
    \/ \E p \in Procs : ECall(p)
    \/ StepsEHold \/ StepsERelease \/ StepsERefresh
    \/ Env

SpecRefresh == InitRefresh /\ [][NextRefresh]_vars

(* Sequential use of EnhancedSeatService by clients that hold a seat for   *)
(* 20 seconds and release it, so that the seat is held again while the    *)
(* timer of an earlier hold is pending.                                   *)
InitRehold ==
    /\ svc = "enhanced" /\ seq = TRUE /\ InitStore
    /\ scope = [ops |-> {"hold", "release"}, seats |-> {1}, durs |-> {20}, faults |-> {}, totals |-> {}]

NextRehold ==
    \/ \E p \in Procs : ECall(p)
    \/ StepsEHold \/ StepsERelease
    \/ Env

SpecRehold == InitRehold /\ [][NextRehold]_vars

(* Creation of the event in sequential use of either service: no event    *)
(* exists at the start, the client calls createEvent with a seat count at *)
(* or next to a limit, and holds seat 1 of the event once it exists.      *)
InitCreate ==
    /\ svc \in {"redis", "enhanced"} /\ seq = TRUE /\ InitRest
    /\ event = [row |-> NoEvent, cache |-> NoEvent]
    /\ seats = <<>>
    /\ scope = [ops |-> {"hold"}, seats |-> {1}, durs |-> {10}, faults |-> {},
                totals |-> {MinTotalSeats - 1, MinTotalSeats, MaxTotalSeats, MaxTotalSeats + 1}]

NextCreate ==
    \/ \E p \in Procs : CreateCall(p)
    \/ StepsSCreate \/ StepsECreate
    \/ \E p \in Procs : SCall(p)
    \/ StepsSHold
    \/ \E p \in Procs : ECall(p)
    \/ StepsEHold \/ StepsERelease
    \/ Env

SpecCreate == InitCreate /\ [][NextCreate]_vars

(* Concurrent createEvent calls for the same event id, with the smallest  *)
(* seat count, while seat 1 of the event is held as soon as it exists.    *)
InitCreateRace ==
    /\ svc \in {"redis", "enhanced"} /\ seq = FALSE /\ InitRest
    /\ event = [row |-> NoEvent, cache |-> NoEvent]
    /\ seats = <<>>
    /\ scope = [ops |-> {"hold"}, seats |-> {1}, durs |-> {10}, faults |-> {},
                totals |-> {MinTotalSeats}]

SpecCreateRace == InitCreateRace /\ [][NextCreate]_vars

(* The HTTP boundary: requests to the routes, one at a time, with the     *)
(* seat service returning or throwing any error of the method called.     *)
InitHttp ==
    /\ svc = "redis" /\ seq = TRUE /\ InitStore
    /\ scope = [ops |-> {}, seats |-> {}, durs |-> {}, faults |-> {}, totals |-> {}]

NextHttp == HttpRequest \/ RouteHandler \/ ServiceReturns \/ ServiceThrows \/ HttpResponse

SpecHttp == InitHttp /\ [][NextHttp]_vars

(* ------------------------------ properties --------------------------- *)
(* Sequential reads of EnhancedSeatService between holdSeat calls whose    *)
(* publish may reject: holdSeat, getSeatStatus and getAvailableSeats on    *)
(* one seat.                                                               *)
InitFaultRead ==
    /\ svc = "enhanced" /\ seq = TRUE /\ InitStore
    /\ scope = [ops |-> {"hold", "status", "avail"}, seats |-> {1}, durs |-> {10}, faults |-> {"publish"}, totals |-> {}]

NextFaultRead ==
    \/ \E p \in Procs : ECall(p)
    \/ StepsEHold \/ StepsERelease \/ StepsERead
    \/ Env

SpecFaultRead == InitFaultRead /\ [][NextFaultRead]_vars

(* Sequential use of either service while a store may fail: holdSeat,     *)
(* getSeatStatus and getAvailableSeats on one seat; pgPool.connect and the *)
(* setEx of the hold key may each reject.                                  *)
InitDegraded ==
    /\ svc \in {"redis", "enhanced"} /\ seq = TRUE /\ InitStore
    /\ scope = [ops |-> {"hold", "status", "avail"}, seats |-> {1}, durs |-> {10},
                faults |-> {"connect", "setEx"}, totals |-> {}]

NextDegraded ==
    \/ \E p \in Procs : SCall(p)
    \/ StepsSHold \/ StepsSRelease \/ StepsSRead
    \/ \E p \in Procs : ECall(p)
    \/ StepsEHold \/ StepsERelease \/ StepsERead
    \/ Env

SpecDegraded == InitDegraded /\ [][NextDegraded]_vars

(* Sequential holdSeat and refreshSeatHold calls on one seat, on either    *)
(* service, with hold durations of 10 and 20 seconds.                      *)
InitExtend ==
    /\ svc \in {"redis", "enhanced"} /\ seq = TRUE /\ InitStore
    /\ scope = [ops |-> {"hold", "refresh"}, seats |-> {1}, durs |-> Durations, faults |-> {}, totals |-> {}]

NextExtend ==
    \/ \E p \in Procs : SCall(p)
    \/ StepsSHold \/ StepsSRefresh
    \/ \E p \in Procs : ECall(p)
    \/ StepsEHold \/ StepsERelease \/ StepsERefresh
    \/ Env

SpecExtend == InitExtend /\ [][NextExtend]_vars

Done(p, op) == pc[p] = "done" /\ loc[p].op = op /\ loc[p].src = "client"

InList(list, x) == \E i \in 1..Len(list) : list[i] = x

(* the seat is durably held and its hold key is gone *)
Lapsed(sn, s) == sn.seats[s].status = "held" /\ sn.hold[s] = NoHold

C2_SeatServiceHoldExclusive ==
    svc = "redis" =>
        \A s \in Seats :
            /\ holdsWon[s] <= 1
            /\ ((\A p \in Procs : pc[p] \in {"idle", "done"})
                    /\ seats[s].status = "held" /\ hold[s] # NoHold)
                => hold[s].userId = seats[s].userId

(* C3: reserved is terminal - no step takes a seat whose durable status is  *)
(* 'reserved' to another status.                                            *)
C3_ReservedTerminal ==
    [][\A s \in Seats : seats[s].status = "reserved" => seats'[s].status = "reserved"]_vars

(* C4: a seat becomes 'reserved' only from 'held', by a reserveSeat of the  *)
(* user who holds it; available -> reserved does not occur.                 *)
C4_ReservedOnlyFromHeld ==
    [][\A s \in Seats :
          (seats[s].status # "reserved" /\ seats'[s].status = "reserved")
          => /\ seats[s].status = "held"
             /\ \E p \in Procs : /\ pc[p] \in {"sResWrite", "eResCommit"}
                                 /\ loc[p].seat = s
                                 /\ loc[p].user = seats[s].userId]_vars

(* a failed holdSeat has left every store as it was *)
NothingChanged ==
    /\ seats = snap.seats /\ hold = snap.hold /\ userHolds = snap.userHolds
    /\ reservation = snap.reservation /\ seatCache = snap.seatCache
    /\ availCache = snap.availCache /\ timers = snap.timers
    /\ \A s \in Seats : lock[s] = NoLock /\ rowLock[s] = 0

(* C5: quota boundary in sequential use - holdSeat on an available seat by  *)
(* a user holding exactly MAX_HOLDS_PER_USER seats fails with 'User can     *)
(* hold maximum <max> seats' and changes nothing; by a user holding one     *)
(* less it succeeds, and the user then holds MAX_HOLDS_PER_USER.            *)
C5_QuotaBoundary ==
    \A p \in Procs :
        (Done(p, "hold") /\ snap.taken /\ snap.seats[loc[p].seat].status = "available")
        => LET n == Cardinality(snap.userHolds[loc[p].user])
           IN  /\ n = MaxHoldsPerUser => loc[p].err = ErrQuota /\ NothingChanged
               /\ n = MaxHoldsPerUser - 1
                     => /\ loc[p].err = NoErr
                        /\ Cardinality(userHolds[loc[p].user]) = MaxHoldsPerUser

(* a user at the quota has called holdSeat for a further available seat *)
C5_Witness ==
    \E p \in Procs :
        /\ Done(p, "hold") /\ snap.taken /\ snap.seats[loc[p].seat].status = "available"
        /\ Cardinality(snap.userHolds[loc[p].user]) = MaxHoldsPerUser
        /\ loc[p].err = ErrQuota

(* C6: in every reachable state each user's user_holds set of the event has *)
(* at most MAX_HOLDS_PER_USER members.                                      *)
C6_QuotaInvariant ==
    \A u \in Users : Cardinality(userHolds[u]) <= MaxHoldsPerUser

(* what C7 and C8 ask of getSeatStatus and getAvailableSeats on a seat that *)
(* is durably held with no hold key                                         *)
Reconciled(p) ==
    /\ Done(p, "status") /\ Lapsed(snap, loc[p].seat)
         => /\ loc[p].err = NoErr
            /\ loc[p].row.status = "available"
            /\ loc[p].row.userId = Null /\ loc[p].row.heldAt = NullT
            /\ seats[loc[p].seat].status = "available"
            /\ loc[p].seat \notin userHolds[snap.seats[loc[p].seat].userId]
    /\ Done(p, "avail")
         => \A s \in Seats : Lapsed(snap, s)
               => /\ loc[p].err = NoErr
                  /\ InList(loc[p].acc, s)
                  /\ seats[s].status = "available"
                  /\ s \notin userHolds[snap.seats[s].userId]

(* C7: SeatService self-healing - with a seat durably held and its hold key *)
(* evicted, the next getSeatStatus returns it as available with userId and  *)
(* heldAt null, the next getAvailableSeats lists it, and after either the   *)
(* stored seat is available and out of the former holder's user_holds.      *)
C7_SeatServiceSelfHealing ==
    \A p \in Procs : (svc = "redis" /\ snap.taken) => Reconciled(p)

(* getSeatStatus has answered for a seat that was held with no hold key *)
C7_Witness ==
    \E p \in Procs :
        /\ svc = "redis" /\ snap.taken /\ Done(p, "status")
        /\ Lapsed(snap, loc[p].seat)
        /\ loc[p].row.status = "available"

(* C8: EnhancedSeatService - with the seat row held and no hold key, the    *)
(* next getSeatStatus / getAvailableSeats releases the seat and reports it  *)
(* available, whatever the caches hold and whether the timer has fired.     *)
C8_EnhancedReconciles ==
    \A p \in Procs : (svc = "enhanced" /\ snap.taken) => Reconciled(p)

(* C9: releaseSeat is idempotent - on a seat that is available or reserved  *)
(* it succeeds and leaves the seat records, hold keys, user_holds sets and  *)
(* notifications as they were; on a held seat it leaves the seat available, *)
(* so that a second releaseSeat changes nothing more.                       *)
C9_ReleaseIdempotent ==
    \A p \in Procs :
        (Done(p, "release") /\ snap.taken)
        => /\ loc[p].err = NoErr
           /\ snap.seats[loc[p].seat].status \in {"available", "reserved"}
                 => /\ seats = snap.seats /\ hold = snap.hold
                    /\ userHolds = snap.userHolds /\ reservation = snap.reservation
                    /\ seatCache = snap.seatCache /\ loc[p].out = <<>>
           /\ snap.seats[loc[p].seat].status = "held"
                 => seats[loc[p].seat].status = "available"

(* releaseSeat has returned for a seat that was reserved *)
C9_Witness ==
    \E p \in Procs :
        /\ Done(p, "release") /\ snap.taken
        /\ snap.seats[loc[p].seat].status = "reserved"
        /\ loc[p].err = NoErr

(* C10: a successful holdSeat(e, s, U, d) on an available seat leaves the   *)
(* seat held by U with heldAt set, a hold record of U with a time-to-live   *)
(* of d seconds expiring d seconds after the call, and s in U's user_holds; *)
(* no other seat, hold record or user_holds set changes.                    *)
C10_HoldEffect ==
    \A p \in Procs :
        (Done(p, "hold") /\ loc[p].err = NoErr /\ snap.taken
            /\ snap.seats[loc[p].seat].status = "available")
        => LET s == loc[p].seat
               u == loc[p].user
           IN  /\ seats[s] = [snap.seats[s] EXCEPT !.status = "held", !.userId = u, !.heldAt = SetT]
               /\ hold[s] = [userId |-> u, heldAt |-> SetT,
                             expiresIn |-> loc[p].dur, ttl |-> loc[p].dur]
               /\ loc[p].h = HoldData(hold[s])
               /\ userHolds = [snap.userHolds EXCEPT ![u] = @ \cup {s}]
               /\ \A s2 \in Seats \ {s} : seats[s2] = snap.seats[s2] /\ hold[s2] = snap.hold[s2]

(* holdSeat of the EnhancedSeatService has succeeded for a user while the *)
(* other seat is held by somebody else                                    *)
C10_Witness ==
    \E p \in Procs :
        /\ svc = "enhanced" /\ Done(p, "hold") /\ loc[p].err = NoErr /\ snap.taken
        /\ \E s2 \in Seats \ {loc[p].seat} : snap.seats[s2].status = "held"

(* the seats, hold keys, reservations and user_holds sets are as they were *)
(* when the call started                                                   *)
SameStore ==
    /\ seats = snap.seats /\ hold = snap.hold
    /\ reservation = snap.reservation /\ userHolds = snap.userHolds

(* C11: a reserveSeat by the user who holds the seat succeeds and leaves the *)
(* seat reserved for that user with reservedAt set, a reservation record of  *)
(* the user, no hold record and one hold less in the user's count; a         *)
(* holdSeat on a reserved seat fails with 'Seat is not available'.           *)
C11_ReserveEffect ==
    \A p \in Procs :
        /\ (Done(p, "reserve") /\ snap.taken
               /\ snap.seats[loc[p].seat].status = "held"
               /\ snap.seats[loc[p].seat].userId = loc[p].user
               /\ snap.hold[loc[p].seat] # NoHold
               /\ snap.hold[loc[p].seat].userId = loc[p].user)
           => LET s == loc[p].seat
                  u == loc[p].user
              IN  /\ loc[p].err = NoErr /\ loc[p].t = SetT
                  /\ seats[s] = [snap.seats[s] EXCEPT !.status = "reserved", !.reservedAt = SetT]
                  /\ seats[s].userId = u
                  /\ reservation[s] = [userId |-> u, reservedAt |-> SetT]
                  /\ hold[s] = NoHold
                  /\ getUserHoldCount(u) = Cardinality(snap.userHolds[u]) - 1
                  /\ s \notin userHolds[u]
        /\ (Done(p, "hold") /\ snap.taken /\ snap.seats[loc[p].seat].status = "reserved")
           => loc[p].err = ErrNotAvailable

(* reserveSeat has succeeded for the holder of the seat *)
C11_Witness ==
    \E p \in Procs :
        /\ Done(p, "reserve") /\ snap.taken /\ loc[p].err = NoErr
        /\ snap.seats[loc[p].seat].userId = loc[p].user
        /\ seats[loc[p].seat].status = "reserved"

(* C12: releaseSeat on a held seat leaves the seat available with userId and *)
(* heldAt null, no hold record, and the seat out of the user_holds set of    *)
(* the user who held it; the other seats, hold records and user_holds sets   *)
(* are unchanged.                                                            *)
C12_ReleaseEffect ==
    \A p \in Procs :
        (pc[p] = "done" /\ loc[p].op = "release" /\ snap.taken
            /\ snap.seats[loc[p].seat].status = "held")
        => LET s == loc[p].seat
           IN  /\ seats[s] = [snap.seats[s] EXCEPT !.status = "available",
                                                   !.userId = Null, !.heldAt = NullT]
               /\ hold[s] = NoHold
               /\ userHolds = [snap.userHolds EXCEPT ![snap.seats[s].userId] = @ \ {s}]
               /\ \A s2 \in Seats \ {s} : seats[s2] = snap.seats[s2] /\ hold[s2] = snap.hold[s2]

(* releaseSeat has returned for a seat that was held with a live hold record *)
C12_Witness ==
    \E p \in Procs :
        /\ svc = "enhanced" /\ Done(p, "release") /\ snap.taken
        /\ snap.seats[loc[p].seat].status = "held"
        /\ snap.hold[loc[p].seat] # NoHold
        /\ seats[loc[p].seat].status = "available"

(* C13: reserveSeat and refreshSeatHold fail with 'Seat is not held' when    *)
(* there is no hold record and with 'Seat is held by another user' when the  *)
(* record is another user's, and leave seats, hold records, reservations     *)
(* and user_holds sets as they were.                                         *)
C13_OwnershipPrecondition ==
    \A p \in Procs :
        (pc[p] = "done" /\ loc[p].op \in {"reserve", "refresh"} /\ snap.taken)
        => LET h == snap.hold[loc[p].seat]
           IN  /\ h = NoHold => loc[p].err = ErrNotHeld /\ SameStore
               /\ (h # NoHold /\ h.userId # loc[p].user)
                     => loc[p].err = ErrOtherUser /\ SameStore

(* reserveSeat has been refused for a seat whose hold record is another user's *)
C13_Witness ==
    \E p \in Procs :
        /\ Done(p, "reserve") /\ snap.taken
        /\ snap.hold[loc[p].seat] # NoHold
        /\ snap.hold[loc[p].seat].userId # loc[p].user
        /\ loc[p].err = ErrOtherUser

C19_GateFailsFast ==
    [][\A p \in Procs :
          (pc[p] = "eHoldLock" /\ pc'[p] # "eHoldLock" /\ lock[loc[p].seat] # NoLock)
          => /\ pc'[p] = "done" /\ loc'[p].err = ErrBusy
             /\ seats' = seats /\ hold' = hold /\ userHolds' = userHolds
             /\ reservation' = reservation /\ lock' = lock]_vars

(* a holdSeat has been refused while another call's gate key is present *)
C19_Witness ==
    \E p \in Procs :
        /\ Done(p, "hold") /\ loc[p].err = ErrBusy
        /\ lock[loc[p].seat] # NoLock /\ lock[loc[p].seat].by # p

(* C20: a rejected messageQueue.publish does not fail the operation - a     *)
(* holdSeat on an available seat by a user under the quota, and a            *)
(* reserveSeat by the holder of a live hold, return success with the         *)
(* transition committed.                                                     *)
C20_NotifierFailureTolerated ==
    \A p \in Procs :
        /\ (Done(p, "hold") /\ snap.taken
               /\ snap.seats[loc[p].seat].status = "available"
               /\ snap.hold[loc[p].seat] = NoHold
               /\ Cardinality(snap.userHolds[loc[p].user]) < MaxHoldsPerUser)
           => /\ loc[p].err = NoErr
              /\ seats[loc[p].seat].status = "held"
              /\ seats[loc[p].seat].userId = loc[p].user
        /\ (Done(p, "reserve") /\ snap.taken
               /\ snap.seats[loc[p].seat].status = "held"
               /\ snap.seats[loc[p].seat].userId = loc[p].user
               /\ snap.hold[loc[p].seat] # NoHold
               /\ snap.hold[loc[p].seat].userId = loc[p].user)
           => /\ loc[p].err = NoErr
              /\ seats[loc[p].seat].status = "reserved"

C21_AvailableOmitsTaken ==
    \A p \in Procs :
        (svc = "enhanced" /\ Done(p, "avail") /\ snap.taken)
        => \A s \in Seats :
              InList(loc[p].acc, s)
              => ~ \/ snap.seats[s].status = "reserved"
                   \/ snap.seats[s].status = "held" /\ snap.hold[s] # NoHold

(* C22: SeatService.getAvailableSeats returns, ascending and without         *)
(* duplicates, exactly the seats stored as available and the seats stored as *)
(* held whose hold record is gone; every seat it lists is stored as          *)
(* available afterwards, and the other seats are stored as they were.        *)
C22_AvailableSeatsList ==
    \A p \in Procs :
        (svc = "redis" /\ Done(p, "avail") /\ snap.taken)
        => /\ loc[p].err = NoErr
           /\ loc[p].acc = Ascending({s \in Seats : \/ snap.seats[s].status = "available"
                                                    \/ Lapsed(snap, s)})
           /\ \A i, j \in 1..Len(loc[p].acc) : i < j => loc[p].acc[i] < loc[p].acc[j]
           /\ \A s \in Seats :
                 IF InList(loc[p].acc, s)
                 THEN seats[s].status = "available" /\ seats[s].userId = Null
                 ELSE seats[s] = snap.seats[s]

(* getAvailableSeats has listed both seats, one of them reconciled by the call *)
C22_Witness ==
    \E p \in Procs :
        /\ svc = "redis" /\ Done(p, "avail") /\ snap.taken
        /\ Len(loc[p].acc) = 2
        /\ \E s \in Seats : Lapsed(snap, s)

(* C23: createEvent fails with 'Total seats must be between 10 and 1000'    *)
(* for a seat count below 10 or above 1000 and with 'Event already exists'  *)
(* for an event id that is taken, creating nothing; for a count from 10 to  *)
(* 1000 and a fresh id it creates the event, active, and the seats          *)
(* 1..totalSeats, every one available with no holder.                       *)
C23_CreateEvent ==
    \A p \in Procs :
        (Done(p, "create") /\ snap.taken)
        => LET n      == loc[p].total
               badN   == n < 10 \/ n > 1000
               taken  == snap.event.row # NoEvent
               same   == event = snap.event /\ seats = snap.seats
           IN  /\ (badN /\ ~taken) => loc[p].err = ErrSeatCount /\ same
               /\ (~badN /\ taken) => loc[p].err = ErrExists /\ same
               /\ (badN /\ taken)  => loc[p].err \in {ErrSeatCount, ErrExists} /\ same
               /\ (~badN /\ ~taken)
                    => /\ loc[p].err = NoErr
                       /\ event.row.status = "active" /\ event.row.totalSeats = n
                       /\ DOMAIN seats = 1..n
                       /\ \A k \in 1..n : seats[k] = AvailableSeat

(* createEvent has created an event of 1000 seats *)
C23_Witness ==
    \E p \in Procs :
        /\ Done(p, "create") /\ snap.taken /\ loc[p].err = NoErr
        /\ loc[p].total = 1000 /\ snap.event.row = NoEvent
        /\ DOMAIN seats = 1..1000

(* C24: the event is created at most once - of two createEvent calls for    *)
(* the event id at most one reports success, and no step of a createEvent   *)
(* call changes a seat that is held or reserved.                            *)
C24_CreatedOnce ==
    [][/\ \A p, q \in Procs :
            (p # q /\ pc'[p] = "done" /\ pc'[q] = "done"
                /\ loc'[p].op = "create" /\ loc'[q].op = "create")
            => ~(loc'[p].err = NoErr /\ loc'[q].err = NoErr)
       /\ \A p \in Procs :
            (loc[p].op = "create" /\ pc'[p] # pc[p])
            => \A s \in DOMAIN seats :
                  seats[s].status # "available"
                  => (s \in DOMAIN seats' /\ seats'[s] = seats[s])]_vars

(* C25: errorHandler answers every business-rule failure of the seat        *)
(* services with the status of its kind and the message itself: not found   *)
(* 404; already exists 409; not available, not held, held by another user,  *)
(* hold expired 409; invalid seat number and seat count 400; quota 429;     *)
(* gate contention a status other than 500.                                 *)
C25_ErrorMapping ==
    (http.stage = "answered" /\ http.name = "Error")
    => LET m == http.thrown
       IN  /\ m \in {ErrEventNotFound, ErrSeatNotFound} => http.status = 404 /\ http.error = m
           /\ m = ErrExists => http.status = 409 /\ http.error = m
           /\ m \in {ErrNotAvailable, ErrNotHeld, ErrOtherUser, ErrExpired}
                 => http.status = 409 /\ http.error = m
           /\ m \in {ErrInvalidSeat, ErrSeatCount} => http.status = 400 /\ http.error = m
           /\ m = ErrQuota => http.status = 429 /\ http.error = m
           /\ m = ErrBusy => http.status # 500 /\ http.error = m

(* C27: a request to a seat route whose seatNumber does not parse to an     *)
(* integer >= 1 is answered with status 400 and error 'Invalid seat         *)
(* number', and the seat service is not called.                             *)
C27_SeatNumberValidation ==
    (http.stage = "answered" /\ http.route \in SeatRoutes
        /\ (parseInt(http.seatNumber).isNaN \/ parseInt(http.seatNumber).n < 1))
    => /\ http.status = 400
       /\ http.error = ErrInvalidSeat
       /\ ~http.called

(* C26: EnhancedSeatService.getSeatStatus - once a holdSeat, reserveSeat or *)
(* releaseSeat call has completed, committed or failed and rolled back, a   *)
(* getSeatStatus call returns the status and the user of the durable seat   *)
(* row, not an older or uncommitted value of the seat:<e>:<s> cache         *)
C26_StatusIsDurable ==
    \A p \in Procs :
        (svc = "enhanced" /\ Done(p, "status") /\ loc[p].err = NoErr /\ snap.taken) =>
            /\ loc[p].row.status = snap.seats[loc[p].seat].status
            /\ loc[p].row.userId = snap.seats[loc[p].seat].userId

(* no call is in progress: a state between operations *)
Quiet == \A p \in Procs : pc[p] = "idle"

(* C28: hold-record invariant - in every state between operations, a hold  *)
(* record of a seat with userId U exists only while the durable seat is     *)
(* held by U, whatever holdSeat, releaseSeat, reserveSeat and refreshHold   *)
(* calls ran before and however they interleaved                            *)
C28_HoldRecord ==
    Quiet => \A s \in DOMAIN seats :
        hold[s] # NoHold => seats[s].status = "held" /\ seats[s].userId = hold[s].userId

(* C29: seat-record invariant - in every state between operations the seat *)
(* has a userId exactly when it is held or reserved, a heldAt exactly when  *)
(* it is held and a reservedAt exactly when it is reserved                  *)
C29_SeatRecord ==
    Quiet => \A s \in DOMAIN seats :
        /\ (seats[s].userId # Null) <=> (seats[s].status \in {"held", "reserved"})
        /\ (seats[s].heldAt # NullT) <=> (seats[s].status = "held")
        /\ (seats[s].reservedAt # NullT) <=> (seats[s].status = "reserved")

(* C30: user-hold-set invariant - in every state between operations a seat  *)
(* is a member of user_holds of U only while the durable seat is held by U  *)
C30_UserHolds ==
    Quiet => \A u \in Users : \A s \in userHolds[u] :
        seats[s].status = "held" /\ seats[s].userId = u

(* C31: EnhancedSeatService.holdSeat - the gate key lock:seat:<e>:<s> is    *)
(* deleted only by the attempt that wrote it: when an attempt leaves        *)
(* holdSeat while the key exists, the key is its own, also after its gate   *)
(* expired and another attempt acquired the gate                            *)
C31_GateReleasedByAcquirer ==
    [][\A p \in Procs :
          (pc[p] = "eHoldFinally" /\ pc'[p] = "done" /\ lock[loc[p].seat] # NoLock)
              => lock[loc[p].seat].by = p]_vars

(* the holdSeat attempts on seat s that have read the seat row and have not *)
(* yet committed or rolled back                                             *)
InCriticalSection(s) ==
    {p \in Procs : loc[p].seat = s /\ pc[p] \in {"eHoldCount", "eHoldUpdate", "eHoldSetEx",
                        "eHoldSAdd", "eHoldPublish", "eHoldCommit", "eHoldRollback"}}

(* C32: EnhancedSeatService.holdSeat - at any moment at most one attempt    *)
(* per seat is between its read of the seat row and its COMMIT or ROLLBACK, *)
(* also when the gate key expires or is deleted by another attempt          *)
C32_CriticalSection ==
    \A s \in Seats : Cardinality(InCriticalSection(s)) <= 1

(* one attempt is in its critical section while the gate key is another    *)
(* attempt's, which waits for the seat row                                  *)
C32_Witness ==
    \E p, q \in Procs :
        /\ p # q /\ loc[p].seat = loc[q].seat
        /\ p \in InCriticalSection(loc[p].seat)
        /\ pc[q] = "eHoldSelect" /\ lock[loc[q].seat].by = q

(* C33: EnhancedSeatService.holdSeat - whenever an attempt that acquired   *)
(* the gate returns, with a hold or with any error, the gate key it wrote   *)
(* no longer exists                                                         *)
C33_GateFreedOnExit ==
    \A p \in Procs :
        (svc = "enhanced" /\ Done(p, "hold") /\ loc[p].err # ErrBusy) =>
            lock[loc[p].seat].by # p

(* C34: durable write first - in every state a reader can observe, a hold  *)
(* record of a seat, or a seat's membership of a user_holds set, exists     *)
(* only when the committed seat row is already held by that user: holdSeat  *)
(* commits the seat status before it writes the hold record and the set     *)
C34_DurableWriteFirst ==
    /\ \A s \in DOMAIN seats :
          hold[s] # NoHold => seats[s].status = "held" /\ seats[s].userId = hold[s].userId
    /\ \A u \in Users : \A s \in userHolds[u] :
          seats[s].status = "held" /\ seats[s].userId = u

(* C35: a failed holdSeat changes nothing - whenever holdSeat returns an    *)
(* error, the durable seat records, the hold record of the seat, every      *)
(* user_holds set and the seat cache entry are as they were before the call *)
C35_FailedHoldChangesNothing ==
    \A p \in Procs :
        (Done(p, "hold") /\ loc[p].err # NoErr /\ snap.taken) =>
            /\ seats = snap.seats
            /\ hold[loc[p].seat] = snap.hold[loc[p].seat]
            /\ userHolds = snap.userHolds
            /\ seatCache[loc[p].seat] = snap.seatCache[loc[p].seat]

(* the state a degraded holdSeat leaves: the seat is durably held, its hold *)
(* record was never written and its holder's user_holds set lacks it       *)
Degraded(sn, s) ==
    /\ sn.seats[s].status = "held" /\ sn.hold[s] = NoHold
    /\ s \notin sn.userHolds[sn.seats[s].userId]

(* the seat is durably available and counted in no user_holds set *)
Healed(s) == seats[s] = AvailableSeat /\ \A u \in Users : s \notin userHolds[u]

(* C36: degraded write is self-healing - when a holdSeat stored the seat as *)
(* held and its hold-record write failed, the next getSeatStatus on the     *)
(* seat reports it available and the next getAvailableSeats lists it; the   *)
(* seat is then durably available and in no user_holds set                  *)
C36_DegradedWriteHeals ==
    \A p \in Procs :
        (snap.taken /\ loc[p].err = NoErr) =>
            /\ (Done(p, "status") /\ Degraded(snap, loc[p].seat)) =>
                   loc[p].row.status = "available" /\ Healed(loc[p].seat)
            /\ Done(p, "avail") =>
                   \A s \in Seats : Degraded(snap, s) => InList(loc[p].acc, s) /\ Healed(s)

(* getSeatStatus has run on a seat that a failed holdSeat left degraded *)
C36_Witness ==
    \E p \in Procs :
        /\ Done(p, "status") /\ loc[p].err = NoErr /\ snap.taken
        /\ Degraded(snap, loc[p].seat) /\ loc[p].row.status = "available"

(* C37: reserveSeat and refreshSeatHold reconcile expired holds - when      *)
(* either is called for a seat that is durably held while its hold record   *)
(* no longer exists, the call fails and leaves the seat durably available,  *)
(* with no holder and in no user_holds set                                  *)
C37_ReserveRefreshReconcile ==
    \A p \in Procs :
        (snap.taken /\ (Done(p, "reserve") \/ Done(p, "refresh")) /\ Lapsed(snap, loc[p].seat)) =>
            loc[p].err # NoErr /\ Healed(loc[p].seat)

(* C38: refreshSeatHold changes only the hold's expiry - a successful      *)
(* refreshSeatHold(e, s, U, d) leaves the seat records (s held by U), the   *)
(* user_holds sets and the reservations unchanged, keeps the userId and     *)
(* heldAt of the hold record, sets its expiry and its time to live to d     *)
(* seconds from the call, and returns the hold record as stored             *)
C38_RefreshFrame ==
    \A p \in Procs :
        (Done(p, "refresh") /\ loc[p].err = NoErr /\ snap.taken) =>
            LET s == loc[p].seat
            IN  /\ seats = snap.seats /\ userHolds = snap.userHolds
                /\ reservation = snap.reservation
                /\ seats[s].status = "held" /\ seats[s].userId = loc[p].user
                /\ \A r \in Seats \ {s} : hold[r] = snap.hold[r]
                /\ hold[s].userId = snap.hold[s].userId /\ hold[s].heldAt = snap.hold[s].heldAt
                /\ hold[s].expiresIn = loc[p].dur /\ hold[s].ttl = loc[p].dur
                /\ loc[p].h = HoldData(hold[s])

(* a refreshSeatHold has moved the expiry of a hold *)
C38_Witness ==
    \E p \in Procs :
        /\ Done(p, "refresh") /\ loc[p].err = NoErr /\ snap.taken
        /\ hold[loc[p].seat].expiresIn # snap.hold[loc[p].seat].expiresIn

(* C39: notifications follow commits - a holdSeat or reserveSeat that ends  *)
(* in ROLLBACK has emitted no 'seatUpdated' broadcast and no queue message  *)
(* reporting the seat held or reserved                                      *)
C39_NotificationsFollowCommits ==
    \A p \in Procs :
        ((Done(p, "hold") \/ Done(p, "reserve")) /\ loc[p].err # NoErr) =>
            \A i \in 1..Len(loc[p].out) : loc[p].out[i].status \notin {"held", "reserved"}

(* the seats whose hold record exists and names user u *)
LiveHolds(sn, u) == {s \in Seats : sn.hold[s] # NoHold /\ sn.hold[s].userId = u}

(* C40: the quota counts only live holds - a holdSeat by a user whose       *)
(* unexpired holds number less than MaxHoldsPerUser is never refused with   *)
(* the quota error, also when earlier holds of the user expired by TTL and  *)
(* no read has reconciled them yet                                          *)
C40_QuotaCountsLiveHolds ==
    \A p \in Procs :
        (Done(p, "hold") /\ snap.taken
             /\ Cardinality(LiveHolds(snap, loc[p].user)) < MaxHoldsPerUser)
            => loc[p].err # ErrQuota

=============================================================================
